---- MODULE Spec2Model ----
(***************************************************************************)
(* NetworkManager of src/core/network/blockchain.ts: the persisted network *)
(* registry (one JSON array, read whole and written whole), the in-memory  *)
(* provider cache and active network of one NetworkManager, and the calls  *)
(* in flight on it.  A call is a sequence of atomic steps, one per await   *)
(* at which the file is read or written or an endpoint answers; the steps  *)
(* of different calls interleave freely.                                   *)
(*                                                                         *)
(* The registry file is taken to exist (loadNetworks creates it as [] the  *)
(* first time it is missing); its initial content is any well-formed       *)
(* registry an earlier run of the program can have left behind.            *)
(***************************************************************************)
EXTENDS Integers, Sequences, FiniteSets, TLC

\* ------------------------------------------------------------------ bounds

\* number of calls made on the manager in one behaviour
MaxCalls == 2

\* number of events a listener is handed before the timers stop firing
MaxEvents == 3

\* ---------------------------------------------------------- value universes

Procs == {1, 2}
Names == {"a", "b"}
NoName == "none"
ChainIds == {1, 2}
NoChainId == 0
NoError == "none"

\* retryAttempts left out of the options (undefined)
NoRetryAttempts == 0
\* const maxRetries = options.retryAttempts || 3
DefaultRetryAttempts == 3
\* retryAttempts values a caller passes (0 stands for an absent value)
RetryChoices == {NoRetryAttempts, 2}

\* lastValidated: 0 is a date older than any cleanup threshold, 1 is new Date()
Stale == 0
Fresh == 1

\* ------------------------------------------------------------ NetworkConfig

\* no benchmarkResults in an entry
NoBenchmark ==
    [success |-> FALSE, requestCount |-> 0, errors |-> 0,
     requestsPerSecond |-> [num |-> 0, den |-> 1],
     averageLatency |-> 0, maxLatency |-> 0, minLatency |-> 0,
     errorRate |-> [num |-> 0, den |-> 1]]

NetworkConfig(n, cid, act, lv) ==
    [name |-> n, chainId |-> cid, isTestnet |-> FALSE, isActive |-> act,
     lastValidated |-> lv,
     monitoringEnabled |-> FALSE, benchmarkResults |-> NoBenchmark]

NoNetwork == NetworkConfig(NoName, NoChainId, FALSE, Stale)

NamesOf(nets) == {nets[i].name : i \in DOMAIN nets}

ActiveIndices(nets) == {i \in DOMAIN nets : nets[i].isActive}

\* networks.find((n) => n.isActive)?.name
ActiveName(nets) ==
    IF ActiveIndices(nets) = {} THEN NoName
    ELSE nets[CHOOSE i \in ActiveIndices(nets) :
                  \A j \in ActiveIndices(nets) : i <= j].name

\* networks.findIndex((n) => n.name === name), 0 for -1
FindIndex(nets, n) ==
    IF n \in NamesOf(nets)
    THEN CHOOSE i \in DOMAIN nets :
             /\ nets[i].name = n
             /\ \A j \in 1..(i - 1) : nets[j].name # n
    ELSE 0

\* networks.splice(index, 1)
Splice(nets, i) == SubSeq(nets, 1, i - 1) \o SubSeq(nets, i + 1, Len(nets))

\* the registries the file can hold when a NetworkManager is constructed
WellFormed(nets) ==
    /\ \A i, j \in DOMAIN nets : nets[i].name = nets[j].name => i = j
    /\ Cardinality(ActiveIndices(nets)) <= 1

InitConfigs ==
    {NetworkConfig(n, 1, act, IF n = "a" THEN Stale ELSE Fresh) :
        n \in Names, act \in BOOLEAN}

InitRegistries ==
    {nets \in {<<>>} \cup {<<x>> : x \in InitConfigs}
                     \cup {<<x, y>> : x \in InitConfigs, y \in InitConfigs} :
        /\ WellFormed(nets)
        /\ nets # <<>> => nets[1].name = "a"}

\* --------------------------------------------------------- endpoint answers

\* What the RPC endpoint does during one validateNetwork: the fate of
\* getNetwork (raced against the 10 s deadline), the chain id it reports, the
\* fate of Promise.all([getBlockNumber, getGasPrice]), the block number, and
\* the fate of the latency probe.
Rpc(net, cid, fetch, block, probe) ==
    [net |-> net, chainId |-> cid, fetch |-> fetch, blockNumber |-> block,
     probe |-> probe]

ValidationRpcs ==
    {Rpc("ok", 1, "ok", 1, "slow"), Rpc("ok", 2, "ok", 1, "fast"),
     Rpc("ok", 2, "fail", 1, "fast"), Rpc("timeout", NoChainId, "fail", 0, "fail")}

NetworkOptions(n, cid, retries) ==
    [name |-> n, chainId |-> cid, retryAttempts |-> retries]

NoOptions == NetworkOptions(NoName, NoChainId, NoRetryAttempts)

AddOptions ==
    {NetworkOptions(n, cid, r) :
        n \in Names, cid \in {NoChainId, 1}, r \in RetryChoices}

NoValidation ==
    [isValid |-> FALSE, chainId |-> NoChainId, errors |-> <<>>,
     warnings |-> <<>>, threw |-> FALSE]

\* the catch block of validateNetwork: one message per class of failure
ConnectionError(net) ==
    CASE net = "timeout" -> "Connection timed out"
      [] net = "getaddrinfo" -> "DNS resolution failed"
      [] net = "ECONNREFUSED" -> "Connection refused"
      [] OTHER -> "Connection failed"

\* the checks made once the chain id is known; a failure of any await in
\* them lands in the inner catch and becomes a warning
AdditionalChecks(options, rpc) ==
    IF rpc.fetch # "ok"
    THEN [errors |-> <<>>, warnings |-> <<"Additional checks failed">>]
    ELSE LET errs == IF options.chainId # NoChainId /\ options.chainId # rpc.chainId
                     THEN <<"Chain ID mismatch">> ELSE <<>>
             w1 == IF rpc.blockNumber = 0
                   THEN <<"Network might be inactive">> ELSE <<>>
             w2 == CASE rpc.probe = "slow" -> <<"High latency detected">>
                     [] rpc.probe = "fail" -> <<"Additional checks failed">>
                     [] OTHER -> <<>>
         IN [errors |-> errs, warnings |-> w1 \o w2]

ValidateNetwork(options, rpc) ==
    IF rpc.net = "ok"
    THEN LET checks == IF rpc.chainId # 0 THEN AdditionalChecks(options, rpc)
                       ELSE [errors |-> <<>>, warnings |-> <<>>]
         IN [isValid |-> checks.errors = <<>>, chainId |-> rpc.chainId,
             errors |-> checks.errors, warnings |-> checks.warnings,
             threw |-> FALSE]
    ELSE [isValid |-> FALSE, chainId |-> NoChainId,
          errors |-> <<ConnectionError(rpc.net)>>, warnings |-> <<>>,
          threw |-> FALSE]

\* ------------------------------------------------------------ provider cache

\* getProvider: a cached handle is returned as it is; otherwise the registry
\* is loaded, and a handle is created and cached if the name is in it
GetProvider(provs, nets, n) ==
    IF n \in provs THEN [ok |-> TRUE, providers |-> provs]
    ELSE IF n \in NamesOf(nets) THEN [ok |-> TRUE, providers |-> provs \cup {n}]
    ELSE [ok |-> FALSE, providers |-> provs]

\* what the endpoint does to the calls of one liveness probe
ProbeAnswers == {"ok", "error", "timeout"}

NoTest == [success |-> FALSE, error |-> NoError, threw |-> FALSE]

\* testNetwork with the name check made before its try block, as syncNetwork
\* makes it
TestNetworkThrows(n, active, provs, nets, answer) ==
    LET networkName == IF n # NoName THEN n ELSE active
        gp == GetProvider(provs, nets, networkName)
        Failed(e, p) == [result |-> [success |-> FALSE, error |-> e, threw |-> FALSE],
                         providers |-> p]
    IN IF networkName = NoName
       THEN [result |-> [success |-> FALSE, error |-> "NoActiveNetwork",
                         threw |-> TRUE],
             providers |-> provs]
       ELSE IF ~gp.ok THEN Failed("NetworkNotFound", provs)
       ELSE IF answer = "timeout" THEN Failed("ConnectionTimeout", gp.providers)
       ELSE IF answer = "error" THEN Failed("RpcError", gp.providers)
       ELSE [result |-> [success |-> TRUE, error |-> NoError, threw |-> FALSE],
             providers |-> gp.providers]

\* testNetwork({name}): everything happens inside its try block
TestNetwork(n, active, provs, nets, answer) ==
    LET networkName == IF n # NoName THEN n ELSE active
        gp == GetProvider(provs, nets, networkName)
        Failed(e, p) == [result |-> [success |-> FALSE, error |-> e, threw |-> FALSE],
                         providers |-> p]
    IN IF networkName = NoName THEN Failed("NoActiveNetwork", provs)
       ELSE IF ~gp.ok THEN Failed("NetworkNotFound", provs)
       ELSE IF answer = "timeout" THEN Failed("ConnectionTimeout", gp.providers)
       ELSE IF answer = "error" THEN Failed("RpcError", gp.providers)
       ELSE [result |-> [success |-> TRUE, error |-> NoError, threw |-> FALSE],
             providers |-> gp.providers]

\* getNetworkStatus(name?): throws on every failure, and reports isConnected:
\* true whenever it returns
GetNetworkStatus(n, active, provs, nets, answer) ==
    LET networkName == IF n # NoName THEN n ELSE active
        gp == GetProvider(provs, nets, networkName)
    IN IF networkName = NoName
       THEN [threw |-> TRUE, err |-> "NoActiveNetwork", isConnected |-> FALSE,
             providers |-> provs]
       ELSE IF ~gp.ok
       THEN [threw |-> TRUE, err |-> "NetworkNotFound", isConnected |-> FALSE,
             providers |-> provs]
       ELSE IF answer # "ok"
       THEN [threw |-> TRUE, err |-> "RpcError", isConnected |-> FALSE,
             providers |-> gp.providers]
       ELSE [threw |-> FALSE, err |-> NoError, isConnected |-> TRUE,
             providers |-> gp.providers]

\* syncNetwork(name?): the name check is made before the try block
SyncNetwork(n, active, provs, nets, answer) ==
    LET networkName == IF n # NoName THEN n ELSE active
        gp == GetProvider(provs, nets, networkName)
    IN IF networkName = NoName
       THEN [threw |-> TRUE, err |-> "NoActiveNetwork", name |-> NoName,
             status |-> "none", providers |-> provs]
       ELSE IF ~gp.ok
       THEN [threw |-> FALSE, err |-> NoError, name |-> networkName,
             status |-> "failed", providers |-> provs]
       ELSE [threw |-> FALSE, err |-> NoError, name |-> networkName,
             status |-> IF answer = "ok" THEN "synchronized" ELSE "failed",
             providers |-> gp.providers]

\* ------------------------------------------------------------------- state

\* a WalletFilter with no property set
NoFilter == [network |-> <<>>, name |-> <<>>, hash |-> <<>>, date |-> <<>>]

NoWalletCall ==
    [op |-> "none", filter |-> NoFilter, overwrite |-> FALSE, format |-> "none",
     useMnemonic |-> FALSE, records |-> <<>>, outcome |-> "none",
     walletData |-> <<>>, wallets |-> <<>>, imported |-> 0, skipped |-> 0,
     deleted |-> 0, count |-> 0, logged |-> {}, qr |-> "none", err |-> "none",
     made |-> 0]


VARIABLES
    file,                \* the persisted registry: the array in networks.json
    providers,           \* this.providers: the names a handle is cached for
    activeNetwork,       \* this.activeNetwork
    monitoringInterval,  \* this.monitoringInterval: a timer of timers, or 0
    timers,              \* the timers setInterval created, with their closures
    calls,               \* the call in flight, or last finished, in each slot:
                         \* networks is the registry loaded by switch, import,
                         \* cleanup, benchmark and monitoring, nets the one
                         \* loaded by addNetwork and removeNetwork
    started,             \* calls made so far
    events,              \* whether a listener is registered, and the events
                         \* it has been handed
    walletsPath,         \* the files under the directory this.walletsPath
    walletCall           \* the last call made to the WalletManager, with its
                         \* arguments and its result

vars == <<file, providers, activeNetwork, monitoringInterval, timers, calls,
          started, events, walletsPath, walletCall>>

NoTimer == 0

\* a flag of NetworkListOptions: absent, true or false
Flags == {"undefined", "true", "false"}

NoListOptions == [active |-> "undefined", testnet |-> "undefined",
                  mainnet |-> "undefined"]

IdleCall ==
    [op |-> "none", pc |-> "idle", name |-> NoName, options |-> NoOptions,
     networks |-> <<>>, nets |-> <<>>, newNetwork |-> NoNetwork, validation |-> NoValidation,
     retryCount |-> 0, attempts |-> 0, test |-> NoTest,
     previousNetwork |-> NoName, status |-> "none", results |-> <<>>,
     items |-> <<>>, idx |-> 0, overwrite |-> FALSE, imported |-> 0,
     inactive |-> FALSE, unvalidated |-> FALSE, removed |-> <<>>,
     benchmark |-> NoBenchmark, timer |-> NoTimer,
     outcome |-> "pending", err |-> NoError,
     wrote |-> FALSE, evicted |-> FALSE, rpc |-> "none",
     list |-> NoListOptions]

Init ==
    /\ file \in InitRegistries
    /\ providers = {}
    /\ activeNetwork = NoName
    /\ monitoringInterval = NoTimer
    /\ timers = <<>>
    /\ calls = [c \in Procs |-> IdleCall]
    /\ started = 0
    /\ events = [on |-> FALSE, log |-> <<>>]
    /\ walletsPath = {}
    /\ walletCall = NoWalletCall

Free(c) == calls[c].pc \in {"idle", "done"}

InFlight(c) == ~Free(c)

\* a new call takes the lowest free slot
CanBegin(c) ==
    /\ Free(c)
    /\ \A d \in Procs : d < c => ~Free(d)
    /\ started < MaxCalls

\* the record of a call at the moment it is made
NewCall(op, n) == [IdleCall EXCEPT !.op = op, !.name = n, !.pc = "begin"]

\* the slots once the call in slot c has moved on to rec
SetCall(c, rec) == [calls EXCEPT ![c] = rec]

\* the slots once a new call, rec, is made in slot c: the results of the calls
\* that finished before it are no longer looked at
BeginCall(c, rec) ==
    [d \in Procs |-> IF d = c THEN rec
                     ELSE IF calls[d].pc = "done" THEN IdleCall ELSE calls[d]]

\* the locals of a call are gone when it ends; its arguments, its result and
\* what it did stay on record
Ended(rec) ==
    [rec EXCEPT !.pc = "done", !.networks = <<>>, !.nets = <<>>, !.items = <<>>,
                !.idx = 0, !.retryCount = 0, !.timer = NoTimer]

Returned(rec) == [Ended(rec) EXCEPT !.outcome = "returned"]

Threw(rec, e) == [Ended(rec) EXCEPT !.outcome = "threw", !.err = e]

\* ----------------------------------------- the loops of the batch operations

\* importNetworks: the for loop from entry rec.idx on, up to the next await.
\* exists is computed on the registry loaded once, before the loop.
RECURSIVE ImportLoop(_)
ImportLoop(rec) ==
    IF rec.idx > Len(rec.items) THEN Returned(rec)
    ELSE LET network == rec.items[rec.idx]
             exists == network.name \in NamesOf(rec.networks)
         IN IF ~exists \/ rec.overwrite
            THEN IF exists
                 THEN [rec EXCEPT !.pc = "removeLoad", !.name = network.name]
                 ELSE [rec EXCEPT !.pc = "validate", !.options = network,
                                  !.retryCount = 0, !.attempts = 0]
            ELSE ImportLoop([rec EXCEPT !.idx = @ + 1])

\* cleanup: the unvalidated check on entry rec.idx of the loaded registry
Unvalidated(rec) ==
    rec.unvalidated /\ rec.networks[rec.idx].lastValidated = Stale

\* cleanup: the for loop from entry rec.idx on, up to the next await
RECURSIVE CleanupLoop(_)
CleanupLoop(rec) ==
    IF rec.idx > Len(rec.networks) THEN Returned(rec)
    ELSE IF rec.inactive
    THEN [rec EXCEPT !.pc = "cleanupStatus", !.name = rec.networks[rec.idx].name]
    ELSE IF Unvalidated(rec)
    THEN [rec EXCEPT !.pc = "removeLoad", !.name = rec.networks[rec.idx].name]
    ELSE CleanupLoop([rec EXCEPT !.idx = @ + 1])

\* cleanup: after getNetworkStatus of entry rec.idx; a throw is caught and the
\* entry skipped, and a status that returns has isConnected = true
CleanupAfterStatus(rec, status) ==
    IF status.threw THEN CleanupLoop([rec EXCEPT !.idx = @ + 1])
    ELSE IF ~status.isConnected
    THEN [rec EXCEPT !.pc = "removeLoad"]
    ELSE IF Unvalidated(rec) THEN [rec EXCEPT !.pc = "removeLoad"]
    ELSE CleanupLoop([rec EXCEPT !.idx = @ + 1])

\* removeNetwork called by cleanup outside its try block
AfterRemoveFatal(rec, e) ==
    CASE rec.op = "importNetworks" ->
            IF e = NoError
            THEN [rec EXCEPT !.pc = "validate", !.options = rec.items[rec.idx],
                             !.retryCount = 0, !.attempts = 0]
            ELSE Threw(rec, e)
      [] rec.op = "cleanup" ->
            IF e = NoError
            THEN CleanupLoop([rec EXCEPT !.removed = Append(@, rec.name),
                                         !.idx = @ + 1])
            ELSE Threw(rec, e)
      [] OTHER -> IF e = NoError THEN Returned(rec) ELSE Threw(rec, e)

\* where control goes when removeNetwork ends, by the caller of it
AfterRemove(rec, e) ==
    CASE rec.op = "importNetworks" ->
            IF e = NoError
            THEN [rec EXCEPT !.pc = "validate", !.options = rec.items[rec.idx],
                             !.retryCount = 0, !.attempts = 0]
            ELSE Threw(rec, e)
      [] rec.op = "cleanup" ->
            IF e = NoError
            THEN CleanupLoop([rec EXCEPT !.removed = Append(@, rec.name),
                                         !.idx = @ + 1])
            ELSE CleanupLoop([rec EXCEPT !.idx = @ + 1])
      [] OTHER -> IF e = NoError THEN Returned(rec) ELSE Threw(rec, e)

\* where control goes when addNetwork ends, by the caller of it
AfterAdd(rec, e) ==
    CASE rec.op = "importNetworks" ->
            IF e = NoError
            THEN ImportLoop([rec EXCEPT !.imported = @ + 1, !.idx = @ + 1])
            ELSE Threw(rec, e)
      [] OTHER -> IF e = NoError THEN Returned(rec) ELSE Threw(rec, e)

\* --------------------------------------------------------------- addNetwork

MaxRetries(options) ==
    IF options.retryAttempts # NoRetryAttempts THEN options.retryAttempts
    ELSE DefaultRetryAttempts

NewNetwork(options, validation) ==
    NetworkConfig(options.name,
                  IF options.chainId # NoChainId THEN options.chainId
                  ELSE validation.chainId,
                  FALSE, Fresh)

\* the retry loop without the validity check after it
AddNetworkAttemptUnchecked(rec, rpc) ==
    LET validation == ValidateNetwork(rec.options, rpc)
        tried == [rec EXCEPT !.attempts = @ + 1, !.validation = validation]
    IN [tried EXCEPT !.pc = "addLoad",
                     !.newNetwork = NewNetwork(rec.options, validation)]

\* the retry loop that takes one more turn after a validation that is not
\* valid, whatever maxRetries says
AddNetworkAttemptOnceMore(rec, rpc) ==
    LET validation == ValidateNetwork(rec.options, rpc)
        tried == [rec EXCEPT !.attempts = @ + 1, !.validation = validation]
    IN IF ~validation.isValid
       THEN IF rec.attempts >= MaxRetries(rec.options) /\ rec.attempts >= 1
            THEN AfterAdd(tried, "InvalidNetworkConfig")
            ELSE [tried EXCEPT !.pc = "validate"]
       ELSE [tried EXCEPT !.pc = "addLoad",
                          !.newNetwork = NewNetwork(rec.options, validation)]

\* one turn of the retry loop, and the validity check after it; the loop
\* takes no turn when retryCount < maxRetries fails from the start, and the
\* validation is null then
AddNetworkAttempt(rec, rpc) ==
    IF ~(rec.retryCount < MaxRetries(rec.options))
    THEN AfterAdd(rec, "InvalidNetworkConfig")
    ELSE
    LET validation == ValidateNetwork(rec.options, rpc)
        tried == [rec EXCEPT !.attempts = @ + 1, !.validation = validation]
    IN IF validation.threw
       THEN IF rec.retryCount + 1 = MaxRetries(rec.options)
            THEN AfterAdd([tried EXCEPT !.retryCount = @ + 1], "ValidationThrew")
            ELSE [tried EXCEPT !.retryCount = @ + 1, !.pc = "validate"]
       ELSE IF ~validation.isValid
            THEN AfterAdd(tried, "InvalidNetworkConfig")
            ELSE [tried EXCEPT !.pc = "addLoad",
                               !.newNetwork = NewNetwork(rec.options, validation)]

\* addNetwork(options) is called, or is reached inside importNetworks, or its
\* retry loop takes another turn
AddNetworkValidate(c, options, rpc) ==
        LET inside == calls[c].pc = "validate"
            rec == IF inside THEN calls[c]
                   ELSE [NewCall("addNetwork", options.name)
                            EXCEPT !.options = options]
        IN /\ IF inside THEN TRUE ELSE CanBegin(c)
           /\ calls' = IF inside THEN SetCall(c, AddNetworkAttempt(rec, rpc))
                       ELSE BeginCall(c, AddNetworkAttempt(rec, rpc))
           /\ started' = IF inside THEN started ELSE started + 1
           /\ UNCHANGED <<file, providers, activeNetwork, monitoringInterval,
                          timers,
                          events, walletsPath, walletCall>>

\* loadNetworks and the push, without the duplicate check
AddNetworkCheckNoDup(rec, nets) ==
    [rec EXCEPT !.nets = Append(nets, rec.newNetwork), !.pc = "addSave"]

\* loadNetworks, the duplicate check and the push
AddNetworkCheck(rec, nets) ==
    IF rec.newNetwork.name \in NamesOf(nets)
    THEN AfterAdd(rec, "DuplicateNetworkName")
    ELSE [rec EXCEPT !.nets = Append(nets, rec.newNetwork), !.pc = "addSave"]

AddNetworkLoad(c) ==
    /\ calls[c].pc = "addLoad"
    /\ calls' = SetCall(c, AddNetworkCheck(calls[c], file))
    /\ UNCHANGED <<file, providers, activeNetwork, monitoringInterval, timers,
                   started,
                   events, walletsPath, walletCall>>

AddNetworkSave(c) ==
    /\ calls[c].pc = "addSave"
    /\ file' = calls[c].nets
    /\ calls' = SetCall(c, AfterAdd([calls[c] EXCEPT !.wrote = TRUE], NoError))
    /\ UNCHANGED <<providers, activeNetwork, monitoringInterval, timers,
                   started,
                   events, walletsPath, walletCall>>

\* ------------------------------------------------------------ removeNetwork

\* loadNetworks, the lookup and the splice, without the isActive check
RemoveNetworkCheckAny(rec, nets) ==
    LET index == FindIndex(nets, rec.name)
    IN IF index = 0 THEN AfterRemove(rec, "NetworkNotFound")
       ELSE [rec EXCEPT !.nets = Splice(nets, index), !.pc = "removeSave"]

\* loadNetworks, the two checks and the splice
RemoveNetworkCheck(rec, nets) ==
    LET index == FindIndex(nets, rec.name)
    IN IF index = 0 THEN AfterRemove(rec, "NetworkNotFound")
       ELSE IF nets[index].isActive
       THEN AfterRemove(rec, "CannotRemoveActiveNetwork")
       ELSE [rec EXCEPT !.nets = Splice(nets, index), !.pc = "removeSave"]

\* removeNetwork(name) is called, or is reached inside importNetworks or
\* cleanup
RemoveNetworkLoad(c) ==
    \E n \in Names :
        LET inside == calls[c].pc = "removeLoad"
            rec == IF inside THEN calls[c] ELSE NewCall("removeNetwork", n)
        IN /\ IF inside THEN TRUE ELSE CanBegin(c)
           /\ calls' = IF inside THEN SetCall(c, RemoveNetworkCheck(rec, file))
                       ELSE BeginCall(c, RemoveNetworkCheck(rec, file))
           /\ started' = IF inside THEN started ELSE started + 1
           /\ UNCHANGED <<file, providers, activeNetwork, monitoringInterval,
                          timers,
                          events, walletsPath, walletCall>>

\* saveNetworks, then this.providers.delete(name)
RemoveNetworkSave(c) ==
    /\ calls[c].pc = "removeSave"
    /\ file' = calls[c].nets
    /\ providers' = providers \ {calls[c].name}
    /\ calls' = SetCall(c, AfterRemove([calls[c] EXCEPT !.wrote = TRUE,
                                                        !.evicted = TRUE], NoError))
    /\ UNCHANGED <<activeNetwork, monitoringInterval, timers, started,
                   events, walletsPath, walletCall>>

\* ------------------------------------------------------------ switchNetwork

\* the lookup of the active entry made after the forEach that activates
SwitchNetworkFindLate(rec, nets) ==
    IF FindIndex(nets, rec.name) = 0 THEN Threw(rec, "NetworkNotFound")
    ELSE [rec EXCEPT !.networks = nets, !.previousNetwork = rec.name,
                     !.pc = "switchTest"]

\* loadNetworks, the lookup of the target and of the active entry
SwitchNetworkFind(rec, nets) ==
    IF FindIndex(nets, rec.name) = 0 THEN Threw(rec, "NetworkNotFound")
    ELSE [rec EXCEPT !.networks = nets, !.previousNetwork = ActiveName(nets),
                     !.pc = "switchTest"]

SwitchNetworkLoad(c) ==
    \E n \in Names :
        /\ CanBegin(c)
        /\ calls' = BeginCall(c, SwitchNetworkFind(NewCall("switchNetwork", n), file))
        /\ started' = started + 1
        /\ UNCHANGED <<file, providers, activeNetwork, monitoringInterval,
                       timers,
                       events, walletsPath, walletCall>>

\* what switchNetwork does with the outcome of its connectivity test: the
\* result object is dropped
SwitchAfterTest(rec, test) ==
    IF test.threw THEN Threw([rec EXCEPT !.test = test], "TestThrew")
    ELSE [rec EXCEPT !.test = test, !.pc = "switchSave"]

\* await this.testNetwork({ name })
SwitchNetworkTest(c, answer) ==
        LET t == TestNetwork(calls[c].name, activeNetwork, providers, file, answer)
        IN /\ calls[c].pc = "switchTest"
           /\ providers' = t.providers
           /\ calls' = SetCall(c, SwitchAfterTest(calls[c], t.result))
           /\ UNCHANGED <<file, activeNetwork, monitoringInterval, timers,
                          started,
                          events, walletsPath, walletCall>>

\* the target marked active and no other entry touched
ActivateOnly(nets, n) ==
    [i \in DOMAIN nets |->
        IF nets[i].name = n THEN [nets[i] EXCEPT !.isActive = TRUE] ELSE nets[i]]

\* networks.forEach((n) => (n.isActive = n.name === name))
Activate(nets, n) ==
    [i \in DOMAIN nets |-> [nets[i] EXCEPT !.isActive = (nets[i].name = n)]]

\* saveNetworks, then this.activeNetwork = name
SwitchNetworkSave(c) ==
    /\ calls[c].pc = "switchSave"
    /\ file' = Activate(calls[c].networks, calls[c].name)
    /\ activeNetwork' = calls[c].name
    /\ calls' = SetCall(c, Returned([calls[c] EXCEPT !.wrote = TRUE]))
    /\ UNCHANGED <<providers, monitoringInterval, timers, started,
                   events, walletsPath, walletCall>>

\* ----------------------------------------------------------- importNetworks

\* the entries of an import file
ImportFiles ==
    LET A == NetworkOptions("a", 1, NoRetryAttempts)
        B == NetworkOptions("b", 1, NoRetryAttempts)
    IN {<<A>>, <<B>>, <<A, B>>, <<B, B>>}

\* the import file is read, the registry loaded, and the loop entered
ImportNetworksLoad(c, items, overwrite) ==
        LET rec == [NewCall("importNetworks", NoName)
                       EXCEPT !.items = items, !.overwrite = overwrite,
                              !.networks = file, !.idx = 1]
        IN /\ CanBegin(c)
           /\ calls' = BeginCall(c, ImportLoop(rec))
           /\ started' = started + 1
           /\ UNCHANGED <<file, providers, activeNetwork, monitoringInterval,
                          timers,
                          events, walletsPath, walletCall>>

\* ------------------------------------------------------------------ cleanup

CleanupLoad(c) ==
    \E inactive \in BOOLEAN, unvalidated \in BOOLEAN :
        LET rec == [NewCall("cleanup", NoName)
                       EXCEPT !.inactive = inactive, !.unvalidated = unvalidated,
                              !.networks = file, !.idx = 1]
        IN /\ CanBegin(c)
           /\ calls' = BeginCall(c, CleanupLoop(rec))
           /\ started' = started + 1
           /\ UNCHANGED <<file, providers, activeNetwork, monitoringInterval,
                          timers,
                          events, walletsPath, walletCall>>

\* const status = await this.getNetworkStatus(network.name)
CleanupStatus(c, answer) ==
        LET st == GetNetworkStatus(calls[c].name, activeNetwork, providers, file,
                                   answer)
        IN /\ calls[c].pc = "cleanupStatus"
           /\ providers' = st.providers
           /\ calls' = SetCall(c, CleanupAfterStatus(calls[c], st))
           /\ UNCHANGED <<file, activeNetwork, monitoringInterval, timers,
                          started,
                          events, walletsPath, walletCall>>

\* --------------------------------------------------------- benchmarkNetwork

\* requests answered, and requests failed, while the benchmark runs
OkCounts == {0, 1}
ErrorCounts == {0, 2}

\* getProvider(name), loadNetworks and the lookup
BenchmarkFind(rec, gp, nets) ==
    IF ~gp.ok \/ FindIndex(nets, rec.name) = 0 THEN Threw(rec, "NetworkNotFound")
    ELSE [rec EXCEPT !.networks = nets, !.pc = "benchmarkRun"]

BenchmarkNetworkLoad(c) ==
    \E n \in Names :
        LET gp == GetProvider(providers, file, n)
        IN /\ CanBegin(c)
           /\ providers' = gp.providers
           /\ calls' = BeginCall(c, BenchmarkFind(NewCall("benchmarkNetwork", n),
                                                  gp, file))
           /\ started' = started + 1
           /\ UNCHANGED <<file, activeNetwork, monitoringInterval, timers,
                          events, walletsPath, walletCall>>

\* the seconds a benchmark runs, and the milliseconds an answered request
\* takes
TotalTime == 1
RequestLatency == 5

\* the result with errorRate: requestCount > 0 ? errors.length / requestCount : 0
BenchmarkResultZeroRate(requestCount, errors) ==
    [success |-> errors = 0, requestCount |-> requestCount, errors |-> errors,
     requestsPerSecond |-> [num |-> requestCount, den |-> TotalTime],
     averageLatency |-> IF requestCount > 0
                        THEN (requestCount * RequestLatency) \div requestCount
                        ELSE 0,
     maxLatency |-> IF requestCount > 0 THEN RequestLatency ELSE 0,
     minLatency |-> IF requestCount > 0 THEN RequestLatency ELSE 0,
     errorRate |-> IF requestCount > 0 THEN [num |-> errors, den |-> requestCount]
                   ELSE [num |-> 0, den |-> 1]]

\* the result computed from the requests counted in the loop: requestCount
\* counts the requests that were answered (results holds one latency for
\* each), errors those that failed; the two rates are kept as fractions
BenchmarkResult(requestCount, errors) ==
    [success |-> errors = 0, requestCount |-> requestCount, errors |-> errors,
     requestsPerSecond |-> [num |-> requestCount, den |-> TotalTime],
     averageLatency |-> IF requestCount > 0
                        THEN (requestCount * RequestLatency) \div requestCount
                        ELSE 0,
     maxLatency |-> IF requestCount > 0 THEN RequestLatency ELSE 0,
     minLatency |-> IF requestCount > 0 THEN RequestLatency ELSE 0,
     errorRate |-> IF requestCount > 0 THEN [num |-> errors, den |-> requestCount]
                   ELSE [num |-> 1, den |-> 1]]

SetBenchmark(nets, n, result) ==
    [i \in DOMAIN nets |->
        IF i = FindIndex(nets, n) THEN [nets[i] EXCEPT !.benchmarkResults = result]
        ELSE nets[i]]

\* the while loop, and network.benchmarkResults = benchmarkResult
BenchmarkNetworkRun(c, oks, errs) ==
        LET result == BenchmarkResult(oks, errs)
        IN /\ calls[c].pc = "benchmarkRun"
           /\ calls' = SetCall(c, [calls[c] EXCEPT
                 !.benchmark = result,
                 !.networks = SetBenchmark(@, calls[c].name, result),
                 !.pc = "benchmarkSave"])
           /\ UNCHANGED <<file, providers, activeNetwork, monitoringInterval,
                          timers, started,
                          events, walletsPath, walletCall>>

BenchmarkNetworkSave(c) ==
    /\ calls[c].pc = "benchmarkSave"
    /\ file' = calls[c].networks
    /\ calls' = SetCall(c, Returned([calls[c] EXCEPT !.wrote = TRUE]))
    /\ UNCHANGED <<providers, activeNetwork, monitoringInterval, timers,
                   started,
                   events, walletsPath, walletCall>>

\* --------------------------------------------------------------- monitoring

\* this.emit(type, {name, ...}): the listener, if one is registered, is handed
\* the event
Emit(type, n) ==
    IF events.on THEN [events EXCEPT !.log = Append(@, [type |-> type, name |-> n])]
    ELSE events

\* networkManager.on(...): a listener is registered
Listen ==
    /\ ~events.on
    /\ events' = [events EXCEPT !.on = TRUE]
    /\ UNCHANGED <<file, providers, activeNetwork, monitoringInterval, timers,
                   calls, started, walletsPath, walletCall>>

\* a timer made by setInterval(monitor, interval): the name and the networks
\* array its monitor closure holds, whether it has been cleared, and where
\* the run of monitor it started is
Timer(n, nets) == [name |-> n, networks |-> nets, live |-> TRUE, pc |-> "idle"]

\* clearInterval(this.monitoringInterval)
ClearInterval(ts, handle) ==
    IF handle = NoTimer THEN ts ELSE [ts EXCEPT ![handle].live = FALSE]

\* network.lastValidated = new Date(), on the entry found when monitoring began
SetLastValidated(nets, n) ==
    [i \in DOMAIN nets |->
        IF i = FindIndex(nets, n) THEN [nets[i] EXCEPT !.lastValidated = Fresh]
        ELSE nets[i]]

\* network.monitoringEnabled = true, on the same entry
SetMonitoringEnabled(nets, n) ==
    [i \in DOMAIN nets |->
        IF i = FindIndex(nets, n) THEN [nets[i] EXCEPT !.monitoringEnabled = TRUE]
        ELSE nets[i]]

\* loadNetworks, the lookup, clearInterval of the timer on record, and the
\* start of the initial check
StartMonitoringLoad(c) ==
    \E n \in Names :
        LET rec == NewCall("startNetworkMonitoring", n)
            found == FindIndex(file, n) # 0
        IN /\ CanBegin(c)
           /\ calls' = BeginCall(c,
                 IF found THEN [rec EXCEPT !.networks = file, !.pc = "monitorInitial"]
                 ELSE Threw(rec, "NetworkNotFound"))
           /\ timers' = IF found THEN ClearInterval(timers, monitoringInterval)
                        ELSE timers
           /\ started' = started + 1
           /\ UNCHANGED <<file, providers, activeNetwork, monitoringInterval,
                          events, walletsPath, walletCall>>

\* the initial check fails: monitor emits monitoringError and returns, the
\* timer is set and the entry marked; or it succeeds and monitor saves first
StartMonitoringInitial(c, answer) ==
        LET rec == calls[c]
            st == GetNetworkStatus(rec.name, activeNetwork, providers, file, answer)
        IN /\ rec.pc = "monitorInitial"
           /\ providers' = st.providers
           /\ IF st.threw
              THEN /\ timers' = Append(timers,
                        Timer(rec.name, SetMonitoringEnabled(rec.networks, rec.name)))
                   /\ monitoringInterval' = Len(timers) + 1
                   /\ calls' = SetCall(c, [rec EXCEPT !.timer = Len(timers) + 1,
                                                      !.status = "monitoringError",
                                                      !.pc = "monitorSave"])
                   /\ events' = Emit("monitoringError", rec.name)
              ELSE /\ calls' = SetCall(c, [rec EXCEPT
                        !.networks = SetLastValidated(@, rec.name),
                        !.status = "networkStatus",
                        !.pc = "monitorInitialSave"])
                   /\ UNCHANGED <<timers, monitoringInterval, events>>
           /\ UNCHANGED <<file, activeNetwork, started, walletsPath, walletCall>>

\* monitor saves its networks; then the timer is set and the entry marked
StartMonitoringInitialSave(c) ==
    LET rec == calls[c]
    IN /\ rec.pc = "monitorInitialSave"
       /\ file' = rec.networks
       /\ timers' = Append(timers,
             Timer(rec.name, SetMonitoringEnabled(rec.networks, rec.name)))
       /\ monitoringInterval' = Len(timers) + 1
       /\ calls' = SetCall(c, [rec EXCEPT !.timer = Len(timers) + 1, !.wrote = TRUE,
                                          !.pc = "monitorSave"])
       /\ events' = Emit("networkStatus", rec.name)
       /\ UNCHANGED <<providers, activeNetwork, started, walletsPath,
                      walletCall>>

\* the last saveNetworks of startNetworkMonitoring: the array the timer's
\* closure shares
StartMonitoringSave(c) ==
    /\ calls[c].pc = "monitorSave"
    /\ file' = timers[calls[c].timer].networks
    /\ calls' = SetCall(c, Returned([calls[c] EXCEPT !.wrote = TRUE]))
    /\ UNCHANGED <<providers, activeNetwork, monitoringInterval, timers,
                   started,
                   events, walletsPath, walletCall>>

\* a timer that was not cleared fires: monitor runs getNetworkStatus
MonitorTick(t, answer) ==
        LET st == GetNetworkStatus(timers[t].name, activeNetwork, providers, file,
                                   answer)
        IN /\ timers[t].live
           /\ timers[t].pc = "idle"
           /\ Len(events.log) < MaxEvents
           /\ providers' = st.providers
           /\ timers' = IF st.threw THEN timers
                        ELSE [timers EXCEPT
                                 ![t].networks = SetLastValidated(@, timers[t].name),
                                 ![t].pc = "save"]
           /\ events' = IF st.threw THEN Emit("monitoringError", timers[t].name)
                        ELSE events
           /\ UNCHANGED <<file, activeNetwork, monitoringInterval, calls, started,
                          walletsPath, walletCall>>

\* the save of a run of monitor, without the networkStatus event after it
MonitorTickSaveSilent(t) ==
    /\ timers[t].pc = "save"
    /\ file' = timers[t].networks
    /\ timers' = [timers EXCEPT ![t].pc = "idle"]
    /\ UNCHANGED <<providers, activeNetwork, monitoringInterval, calls, started,
                   events, walletsPath, walletCall>>

\* await this.saveNetworks(networks) of a run of monitor started by a timer
MonitorTickSave(t) ==
    /\ timers[t].pc = "save"
    /\ file' = timers[t].networks
    /\ timers' = [timers EXCEPT ![t].pc = "idle"]
    /\ events' = Emit("networkStatus", timers[t].name)
    /\ UNCHANGED <<providers, activeNetwork, monitoringInterval, calls, started,
                   walletsPath, walletCall>>

\* networks.forEach((network) => { network.monitoringEnabled = false })
DisableMonitoring(nets) ==
    [i \in DOMAIN nets |-> [nets[i] EXCEPT !.monitoringEnabled = FALSE]]

\* stopNetworkMonitoring: nothing at all without a timer on record
StopMonitoringLoad(c) ==
    LET rec == NewCall("stopNetworkMonitoring", NoName)
    IN /\ CanBegin(c)
       /\ started' = started + 1
       /\ IF monitoringInterval = NoTimer
          THEN /\ calls' = BeginCall(c, Returned(rec))
               /\ UNCHANGED <<timers, monitoringInterval>>
          ELSE /\ timers' = ClearInterval(timers, monitoringInterval)
               /\ monitoringInterval' = NoTimer
               /\ calls' = BeginCall(c, [rec EXCEPT
                     !.networks = DisableMonitoring(file), !.pc = "stopSave"])
       /\ UNCHANGED <<file, providers, activeNetwork,
                      events, walletsPath, walletCall>>

StopMonitoringSave(c) ==
    /\ calls[c].pc = "stopSave"
    /\ file' = calls[c].networks
    /\ calls' = SetCall(c, Returned([calls[c] EXCEPT !.wrote = TRUE]))
    /\ UNCHANGED <<providers, activeNetwork, monitoringInterval, timers,
                   started,
                   events, walletsPath, walletCall>>

\* ----------------------------------- testNetwork, syncNetwork, syncAllNetworks

TestNetworkCall(c) ==
    \E n \in Names \cup {NoName}, answer \in ProbeAnswers :
        LET t == TestNetwork(n, activeNetwork, providers, file, answer)
            rec == [NewCall("testNetwork", n) EXCEPT !.test = t.result,
                                                     !.rpc = answer]
        IN /\ CanBegin(c)
           /\ providers' = t.providers
           /\ calls' = BeginCall(c,
                 IF t.result.threw THEN Threw(rec, t.result.error) ELSE Returned(rec))
           /\ started' = started + 1
           /\ UNCHANGED <<file, activeNetwork, monitoringInterval, timers,
                          events, walletsPath, walletCall>>

GetNetworkStatusCall(c) ==
    \E n \in Names \cup {NoName}, answer \in ProbeAnswers :
        LET st == GetNetworkStatus(n, activeNetwork, providers, file, answer)
            rec == [NewCall("getNetworkStatus", n) EXCEPT !.rpc = answer]
        IN /\ CanBegin(c)
           /\ providers' = st.providers
           /\ calls' = BeginCall(c, IF st.threw THEN Threw(rec, st.err)
                                    ELSE Returned(rec))
           /\ started' = started + 1
           /\ UNCHANGED <<file, activeNetwork, monitoringInterval, timers,
                          events, walletsPath, walletCall>>

SyncNetworkCall(c) ==
    \E n \in Names \cup {NoName}, answer \in ProbeAnswers :
        LET s == SyncNetwork(n, activeNetwork, providers, file, answer)
            rec == [NewCall("syncNetwork", n) EXCEPT
                       !.results = <<[name |-> s.name, status |-> s.status]>>,
                       !.rpc = answer]
        IN /\ CanBegin(c)
           /\ providers' = s.providers
           /\ calls' = BeginCall(c, IF s.threw THEN Threw(rec, s.err) ELSE Returned(rec))
           /\ started' = started + 1
           /\ UNCHANGED <<file, activeNetwork, monitoringInterval, timers,
                          events, walletsPath, walletCall>>

SyncAllNetworksLoad(c) ==
    /\ CanBegin(c)
    /\ calls' = BeginCall(c, [NewCall("syncAllNetworks", NoName) EXCEPT
                                 !.networks = file, !.pc = "syncAll"])
    /\ started' = started + 1
    /\ UNCHANGED <<file, providers, activeNetwork, monitoringInterval, timers,
                   events, walletsPath, walletCall>>

\* Promise.all(networks.map((network) => this.syncNetwork(network.name)))
SyncAll(rec, active, provs, nets, answers) ==
    LET each == [i \in DOMAIN rec.networks |->
                    SyncNetwork(rec.networks[i].name, active, provs, nets,
                                answers[rec.networks[i].name])]
    IN [threw |-> \E i \in DOMAIN each : each[i].threw,
        results |-> [i \in DOMAIN each |->
                        [name |-> each[i].name, status |-> each[i].status]],
        providers |-> provs \cup UNION {each[i].providers : i \in DOMAIN each}]

SyncAllNetworksProbe(c) ==
    \E answers \in [Names -> {"ok", "error"}] :
        LET s == SyncAll(calls[c], activeNetwork, providers, file, answers)
            rec == [calls[c] EXCEPT !.results = s.results]
        IN /\ calls[c].pc = "syncAll"
           /\ providers' = s.providers
           /\ calls' = SetCall(c, IF s.threw THEN Threw(rec, "NoActiveNetwork")
                                  ELSE Returned(rec))
           /\ UNCHANGED <<file, activeNetwork, monitoringInterval, timers,
                          started,
                          events, walletsPath, walletCall>>

\* ------------------------------------------- getProvider, await by await

\* testNetwork({name}) is called and reaches getProvider: a cached handle is
\* used at once; otherwise getProvider awaits loadNetworks, and other calls
\* run before it goes on
GetProviderLoad(c) ==
    \E n \in Names \cup {NoName}, answer \in ProbeAnswers :
        LET networkName == IF n # NoName THEN n ELSE activeNetwork
            t == TestNetwork(n, activeNetwork, providers, file, answer)
            rec == [NewCall("testNetwork", n) EXCEPT !.rpc = answer]
        IN /\ CanBegin(c)
           /\ calls' = BeginCall(c,
                 IF networkName = NoName \/ networkName \in providers
                 THEN Returned([rec EXCEPT !.test = t.result])
                 ELSE [rec EXCEPT !.name = networkName, !.networks = file,
                                  !.pc = "getProvider"])
           /\ started' = started + 1
           /\ UNCHANGED <<file, providers, activeNetwork, monitoringInterval,
                          timers, events, walletsPath, walletCall>>

\* getProvider goes on with the registry it loaded: the lookup, then
\* this.providers.set, then the probe of testNetwork
GetProviderSet(c) ==
    LET rec == calls[c]
        found == rec.name \in NamesOf(rec.networks)
        t == TestNetwork(rec.name, activeNetwork,
                         IF found THEN {rec.name} ELSE {}, <<>>, rec.rpc)
    IN /\ rec.pc = "getProvider"
       /\ providers' = IF found THEN providers \cup {rec.name} ELSE providers
       /\ calls' = SetCall(c, Returned([rec EXCEPT !.test = t.result]))
       /\ UNCHANGED <<file, activeNetwork, monitoringInterval, timers, started,
                      events, walletsPath, walletCall>>

\* ------------------------------------------------- WalletManager: the data

\* strings are sequences of characters, and a JSON object is the sequence of
\* its <<key, value>> pairs in the order of its keys
Undefined == <<"undefined">>

Min(a, b) == IF a < b THEN a ELSE b

\* String.prototype.includes
Includes(s, sub) ==
    \E i \in 0..(Len(s) - Len(sub)) : SubSeq(s, i + 1, i + Len(sub)) = sub

\* String.prototype.slice(0, end)
Slice(s, end) == SubSeq(s, 1, Min(end, Len(s)))

\* String.prototype.toLowerCase, on the characters addresses are made of
ToLowerCase(s) ==
    [i \in DOMAIN s |-> CASE s[i] = "A" -> "a" [] s[i] = "B" -> "b" [] OTHER -> s[i]]

Has(obj, key) == \E i \in DOMAIN obj : obj[i][1] = key

\* obj[key]
Get(obj, key) ==
    IF Has(obj, key)
    THEN obj[CHOOSE i \in DOMAIN obj : obj[i][1] = key][2]
    ELSE Undefined

Keys(obj) == [i \in DOMAIN obj |-> obj[i][1]]

Values(obj) == [i \in DOMAIN obj |-> obj[i][2]]

\* JSON.parse(JSON.stringify(obj)): the properties whose value is undefined
\* are left out
Stringify(obj) ==
    LET Defined(pair) == pair[2] # Undefined
    IN SelectSeq(obj, Defined)

\* the length of the prefix of the address that goes into a file name
AddressPrefix == 8

\* one derivation step: a random key pair, or the one derived from a new phrase
Keys3 == 1..3

KeyChar(d) == CASE d = 1 -> "1" [] d = 2 -> "2" [] OTHER -> "3"

\* the addresses of steps 1 and 2 start with the same eight characters
AddressOf(d) ==
    IF d = 3 THEN <<"0", "x", "b", "b", "b", "b", "b", "b", "3">>
    ELSE <<"0", "x", "A", "A", "A", "A", "A", "A", KeyChar(d)>>

PrivateKeyOf(d) == <<"k", KeyChar(d)>>

MnemonicOf(d) == <<"m", KeyChar(d)>>

\* new Date().toISOString(), and new Date(string) back
IsoStrings == {<<"t", "1">>, <<"t", "2">>}

DateOf(s) == CASE s = <<"t", "1">> -> 1 [] s = <<"t", "2">> -> 2 [] OTHER -> 0

\* date < other, where 0 is the invalid date, which compares false
DateLess(date, other) == date # 0 /\ other # 0 /\ date < other

\* the file name of a wallet: `${name}-${network}-${address.slice(0, 8)}.json`
\* under walletsPath; the file of an export is under walletsPath/exports
WalletFileName(walletData) ==
    [dir |-> <<>>, name |-> Get(walletData, "name"),
     network |-> Get(walletData, "network"),
     prefix |-> Slice(Get(walletData, "address"), AddressPrefix),
     ext |-> "json"]

ExportFileName(format) ==
    [dir |-> <<"exports">>, name |-> <<"wallet-export">>, network |-> <<>>,
     prefix |-> <<>>, ext |-> format]

\* the parsed content of a file: an object, or the array a JSON export holds
ObjectFile(path, obj) ==
    [path |-> path, kind |-> "object", value |-> obj, items |-> <<>>,
     headers |-> <<>>]

ArrayFile(path, wallets) ==
    [path |-> path, kind |-> "array", value |-> <<>>, items |-> wallets,
     headers |-> <<>>]

\* fs.writeFile: the file of that path, if there is one, is replaced
WriteFile(dir, f) == {g \in dir : g.path # f.path} \cup {f}

\* fs.unlink
Unlink(dir, path) == {g \in dir : g.path # path}

Exists(dir, path) == \E g \in dir : g.path = path

\* ----------------------------------------- WalletManager: listing and files

\* the order of characters, and of the names of the blockchains, in a path
Code(ch) ==
    CASE ch = "*" -> 42 [] ch = "0" -> 48 [] ch = "1" -> 49 [] ch = "2" -> 50
      [] ch = "3" -> 51 [] ch = "A" -> 65 [] ch = "B" -> 66 [] ch = "a" -> 97
      [] ch = "b" -> 98 [] ch = "w" -> 119 [] ch = "x" -> 120 [] ch = "y" -> 121
      [] ch = "arbitrum" -> 201 [] ch = "avalanche" -> 202 [] ch = "bitcoin" -> 203
      [] ch = "bsc" -> 204 [] ch = "ethereum" -> 205 [] ch = "optimism" -> 206
      [] ch = "polygon" -> 207 [] OTHER -> 0

RECURSIVE StringLess(_, _)
StringLess(s, t) ==
    IF t = <<>> THEN FALSE
    ELSE IF s = <<>> THEN TRUE
    ELSE IF Code(s[1]) # Code(t[1]) THEN Code(s[1]) < Code(t[1])
    ELSE StringLess(Tail(s), Tail(t))

\* glob returns its matches sorted by path: the files of walletsPath/exports
\* come before the files of the wallets
PathLess(p, q) ==
    IF p.dir # q.dir THEN p.dir # <<>>
    ELSE IF p.name # q.name THEN StringLess(p.name, q.name)
    ELSE IF p.network # q.network THEN StringLess(p.network, q.network)
    ELSE StringLess(p.prefix, q.prefix)

RECURSIVE Sorted(_)
Sorted(files) ==
    IF files = {} THEN <<>>
    ELSE LET first == CHOOSE f \in files :
                         \A g \in files \ {f} : PathLess(f.path, g.path)
         IN <<first>> \o Sorted(files \ {first})

\* glob('**/*.json', { cwd: this.walletsPath })
Glob(dir) == Sorted({f \in dir : f.path.ext = "json"})

\* what JSON.parse gives for the content of a file
Parsed(f) == [kind |-> f.kind, value |-> f.value, items |-> f.items]

Filter(name, network) == [NoFilter EXCEPT !.name = name, !.network = network]

\* matchesFilter(wallet, filter): "true", "false", or "throws" when a method is
\* called on a property the parsed value does not have
MatchesFilter(wallet, filter) ==
    IF filter.network # <<>> /\ Get(wallet.value, "network") # filter.network
    THEN "false"
    ELSE IF filter.name # <<>> /\ ~Has(wallet.value, "name") THEN "throws"
    ELSE IF filter.name # <<>> /\ ~Includes(Get(wallet.value, "name"), filter.name)
    THEN "false"
    ELSE IF filter.hash # <<>> /\ ~Has(wallet.value, "address") THEN "throws"
    ELSE IF /\ filter.hash # <<>>
            /\ ~Includes(ToLowerCase(Get(wallet.value, "address")),
                         ToLowerCase(filter.hash))
    THEN "false"
    ELSE IF /\ filter.date # <<>>
            /\ DateLess(DateOf(Get(wallet.value, "createdAt")), DateOf(filter.date))
    THEN "false"
    ELSE "true"

\* listWallets(options): every file glob finds is read, parsed and matched
ListWallets(dir, options) ==
    LET files == Glob(dir)
        Matches(f) == MatchesFilter(Parsed(f), options) = "true"
        matching == SelectSeq(files, Matches)
    IN IF \E i \in DOMAIN files : MatchesFilter(Parsed(files[i]), options) = "throws"
       THEN [threw |-> TRUE, wallets |-> <<>>]
       ELSE [threw |-> FALSE,
             wallets |-> [i \in DOMAIN matching |-> Parsed(matching[i])]]

\* walletExists(name, network): a failure of the listing counts as absence
WalletExists(dir, name, network) ==
    LET found == ListWallets(dir, Filter(name, network))
    IN ~found.threw /\ Len(found.wallets) > 0

\* ------------------------------------------- WalletManager: the operations

SupportedNetworks ==
    {"bitcoin", "ethereum", "polygon", "bsc", "arbitrum", "optimism", "avalanche"}

\* generateEVMWallet that hands out the phrase whenever the wallet has one
GenerateEVMWalletWithPhrase(useMnemonic, d) ==
    [address |-> AddressOf(d), privateKey |-> PrivateKeyOf(d),
     mnemonic |-> MnemonicOf(d)]

\* bip39.mnemonicToSeed(mnemonic): the seed is a function of the phrase alone
MnemonicToSeed(mnemonic) == CHOOSE d \in Keys3 : MnemonicOf(d) = mnemonic

\* the child at m/84'/0'/0'/0/0 of the root of the seed of a phrase, and its
\* p2wpkh address
DeriveBitcoin(mnemonic) ==
    LET seed == MnemonicToSeed(mnemonic)
    IN [address |-> AddressOf(seed), privateKey |-> PrivateKeyOf(seed)]

\* the ethers.Wallet of a phrase, at the default path of ethers
DeriveEVM(mnemonic) ==
    LET seed == MnemonicToSeed(mnemonic)
    IN [address |-> AddressOf(seed), privateKey |-> PrivateKeyOf(seed)]

\* generateBitcoinWallet that draws a random key pair next to the new phrase
GenerateBitcoinWalletRandomPair(useMnemonic, d) ==
    [address |-> AddressOf(d), privateKey |-> PrivateKeyOf(d),
     mnemonic |-> IF useMnemonic THEN MnemonicOf(IF d = 3 THEN 1 ELSE 3)
                  ELSE Undefined]

\* generateBitcoinWallet(useMnemonic), d being the phrase it generates or the
\* key pair it draws
GenerateBitcoinWallet(useMnemonic, d) ==
    IF useMnemonic
    THEN LET mnemonic == MnemonicOf(d)
             child == DeriveBitcoin(mnemonic)
         IN [address |-> child.address, privateKey |-> child.privateKey,
             mnemonic |-> mnemonic]
    ELSE [address |-> AddressOf(d), privateKey |-> PrivateKeyOf(d),
          mnemonic |-> Undefined]

\* generateEVMWallet(useMnemonic), d being the phrase of the wallet that
\* createRandom makes or the 32 random bytes of the key
GenerateEVMWallet(useMnemonic, d) ==
    IF useMnemonic
    THEN LET wallet == DeriveEVM(MnemonicOf(d))
         IN [address |-> wallet.address, privateKey |-> wallet.privateKey,
             mnemonic |-> MnemonicOf(d)]
    ELSE [address |-> AddressOf(d), privateKey |-> PrivateKeyOf(d),
          mnemonic |-> Undefined]

\* the generateWallet of the configuration of a supported blockchain
GenerateWallet(name, network, useMnemonic, d, now) ==
    LET wallet == IF network = "bitcoin" THEN GenerateBitcoinWallet(useMnemonic, d)
                  ELSE GenerateEVMWallet(useMnemonic, d)
    IN << <<"name", name>>, <<"network", <<network>>>>,
          <<"address", wallet.address>>, <<"privateKey", wallet.privateKey>>,
          <<"mnemonic", wallet.mnemonic>>, <<"createdAt", now>> >>

\* network.toLowerCase(), on the names of blockchains the calls are given
NetworkToLowerCase(network) ==
    IF network = "Ethereum" THEN "ethereum" ELSE network

\* WalletManager.createWallet: the record, and the directory after the write
CreateWallet(dir, name, network, useMnemonic, d, now) ==
    IF NetworkToLowerCase(network) \notin SupportedNetworks
    THEN [threw |-> TRUE, walletData |-> <<>>, dir |-> dir]
    ELSE LET walletData == GenerateWallet(name, NetworkToLowerCase(network),
                                          useMnemonic, d, now)
         IN [threw |-> FALSE, walletData |-> walletData,
             dir |-> WriteFile(dir, ObjectFile(WalletFileName(walletData),
                                               Stringify(walletData)))]

\* generateQR(walletData, {format}): it throws when the wallet has no phrase;
\* for png and svg the code is written next to the file of the wallet
GenerateQR(dir, walletData, format) ==
    IF Get(walletData, "mnemonic") = Undefined
    THEN [threw |-> TRUE, dir |-> dir, walletData |-> walletData]
    ELSE IF format = "terminal"
    THEN [threw |-> FALSE, dir |-> dir,
          walletData |-> Append(walletData, <<"qrString", Get(walletData, "mnemonic")>>)]
    ELSE LET qrPath == [WalletFileName(walletData) EXCEPT !.ext = format]
         IN [threw |-> FALSE,
             dir |-> WriteFile(dir, [path |-> qrPath, kind |-> "qr",
                                     value |-> <<>>, items |-> <<>>,
                                     headers |-> <<>>]),
             walletData |-> Append(walletData, <<"qrPath", <<format>>>>)]

\* createWallet(options) with its options.qr: the file of the wallet is
\* written first, the QR code is made after it
CreateWalletWithQR(dir, name, network, useMnemonic, qr, d, now) ==
    LET made == CreateWallet(dir, name, network, useMnemonic, d, now)
        code == GenerateQR(made.dir, made.walletData, qr)
    IN IF made.threw THEN [made EXCEPT !.threw = "UnsupportedNetwork"]
       ELSE IF qr = "none" THEN [made EXCEPT !.threw = "none"]
       ELSE IF code.threw
       THEN [threw |-> "NoMnemonicAvailable", walletData |-> <<>>, dir |-> made.dir]
       ELSE [threw |-> "none", walletData |-> code.walletData, dir |-> code.dir]

\* formatWalletsAsCsv: the keys of the first wallet, then the values of each,
\* quoted and joined with commas; no value holds a comma or a quote
FormatWalletsAsCsv(wallets) ==
    [headers |-> Keys(wallets[1]),
     rows |-> [i \in DOMAIN wallets |-> Values(wallets[i])]]

CsvFile(path, csv) ==
    [path |-> path, kind |-> "csv", value |-> <<>>, items |-> csv.rows,
     headers |-> csv.headers]

\* parseCsvWallets: values[index] of every header, which is undefined, and
\* .replace on it throws, when the line has fewer values than there are headers
ParseCsvWallets(headers, rows) ==
    IF \E i \in DOMAIN rows : Len(rows[i]) < Len(headers)
    THEN [threw |-> TRUE, wallets |-> <<>>]
    ELSE [threw |-> FALSE,
          wallets |-> [i \in DOMAIN rows |->
                          [k \in DOMAIN headers |-> <<headers[k], rows[i][k]>>]]]

\* exportWallets({name, network, format}) to walletsPath/exports
ExportWallets(dir, name, network, format, now) ==
    LET found == ListWallets(dir, Filter(name, network))
        wallets == [i \in DOMAIN found.wallets |-> found.wallets[i].value]
        path == [ExportFileName(format) EXCEPT !.prefix = now]
    IN IF found.threw \/ Len(wallets) = 0
       THEN [threw |-> TRUE, count |-> 0, dir |-> dir]
       ELSE [threw |-> FALSE, count |-> Len(wallets),
             dir |-> WriteFile(dir,
                        IF format = "csv"
                        THEN CsvFile(path, FormatWalletsAsCsv(wallets))
                        ELSE ArrayFile(path, wallets))]

\* the content of the import file, parsed: JSON.parse or parseCsvWallets
ParseImport(f) ==
    IF f.kind = "csv" THEN ParseCsvWallets(f.headers, f.items)
    ELSE IF f.kind = "array" THEN [threw |-> FALSE, wallets |-> f.items]
    ELSE [threw |-> TRUE, wallets |-> <<>>]

\* saveWallet(walletData, {name, network}): the file name is made of the
\* fields of the record; slice on an address that is missing throws
SaveWallet(dir, walletData) ==
    IF ~Has(walletData, "address") THEN [threw |-> TRUE, dir |-> dir]
    ELSE [threw |-> FALSE,
          dir |-> WriteFile(dir, ObjectFile(WalletFileName(walletData),
                                            Stringify(walletData)))]

\* the loop of importWallets from record i on
RECURSIVE ImportLoopWallets(_, _, _, _, _, _, _)
ImportLoopWallets(dir, wallets, i, network, overwrite, imported, skipped) ==
    IF i > Len(wallets)
    THEN [threw |-> FALSE, imported |-> imported, skipped |-> skipped, dir |-> dir]
    ELSE LET wallet == wallets[i]
             name == IF Has(wallet, "name") THEN Get(wallet, "name") ELSE <<>>
             exists == WalletExists(dir, name, network)
             saved == SaveWallet(dir, wallet)
         IN IF exists /\ ~overwrite
            THEN ImportLoopWallets(dir, wallets, i + 1, network, overwrite,
                                   imported, skipped + 1)
            ELSE IF saved.threw
            THEN ImportLoopWallets(dir, wallets, i + 1, network, overwrite,
                                   imported, skipped + 1)
            ELSE ImportLoopWallets(saved.dir, wallets, i + 1, network, overwrite,
                                   imported + 1, skipped)

\* importWallets({file, network, overwrite})
ImportWallets(dir, f, network, overwrite) ==
    LET parsed == ParseImport(f)
    IN IF parsed.threw
       THEN [threw |-> TRUE, imported |-> 0, skipped |-> 0, dir |-> dir]
       ELSE ImportLoopWallets(dir, parsed.wallets, 1, network, overwrite, 0, 0)

\* the for loop of deleteWallets from wallet i on: unlink throws when the file
\* is not there
RECURSIVE DeleteLoop(_, _, _, _)
DeleteLoop(dir, wallets, i, deleted) ==
    IF i > Len(wallets) THEN [threw |-> FALSE, deleted |-> deleted, dir |-> dir]
    ELSE LET path == WalletFileName(wallets[i].value)
         IN IF ~Has(wallets[i].value, "address") \/ ~Exists(dir, path)
            THEN [threw |-> TRUE, deleted |-> deleted, dir |-> dir]
            ELSE DeleteLoop(Unlink(dir, path), wallets, i + 1, deleted + 1)

\* deleteWallets({name, network})
DeleteWallets(dir, name, network) ==
    LET found == ListWallets(dir, Filter(name, network))
    IN IF found.threw THEN [threw |-> TRUE, deleted |-> 0, dir |-> dir]
       ELSE DeleteLoop(dir, found.wallets, 1, 0)

\* ---------------------------------------------- WalletManager: the calls

\* number of calls made to the WalletManager
MaxWalletCalls == 3

WalletCall(op) ==
    [NoWalletCall EXCEPT !.op = op, !.made = walletCall.made + 1]

Outcome(threw) == IF threw THEN "threw" ELSE "returned"

NetworkVars ==
    <<file, providers, activeNetwork, monitoringInterval, timers, calls, started,
      events>>

\* the key pairs of the wallets in the directory
StoredAddresses(dir) ==
    {Get(f.value, "address") : f \in {g \in dir : g.kind = "object"}}

\* what the calls hand to the logger: the messages, the values of the
\* metadata and the messages of the errors, as strings

\* the TypeError of a read of a property of undefined
TypeErrorMessage == <<"Cannot read properties of undefined">>

\* the SyntaxError of JSON.parse: what its message holds is left to the
\* engine, the position of the offending token alone or an excerpt of the
\* text around it as well
SyntaxErrorMessages(f) ==
    {<<"Unexpected token in JSON at position">>}
        \cup {<<"Unexpected token, ...">> \o Values(f.value)[i]
                  \o <<"... is not valid JSON">> : i \in DOMAIN f.value}

\* listWallets that failed logs the error it caught
ListLogged(found) ==
    IF found.threw THEN {<<"Failed to list wallets">>, TypeErrorMessage} ELSE {}

\* the create command: the address of the wallet, or the error
CreateLogged(made, network) ==
    IF made.threw = "UnsupportedNetwork"
    THEN {<<"Failed to create wallet(s)">>,
          <<"Unsupported blockchain network: ", network>>}
    ELSE IF made.threw = "NoMnemonicAvailable"
    THEN {<<"Failed to generate QR code">>, <<"Failed to create wallet(s)">>,
          <<"No mnemonic phrase available for QR code generation">>}
    ELSE {<<"Wallet created successfully">>, Get(made.walletData, "address")}

\* the list command: the number of wallets found, or the error
ListCommandLogged(found) ==
    IF found.threw THEN ListLogged(found)
    ELSE IF Len(found.wallets) = 0 THEN {}
    ELSE {<<"Listed wallets">>, <<ToString(Len(found.wallets))>>}

\* exportWallets and the export command: the path and the count, or the error
ExportLogged(found, done, format, now) ==
    IF done.threw
    THEN ListLogged(found)
            \cup {<<"Failed to export wallets">>}
            \cup (IF found.threw THEN {}
                  ELSE {<<"No wallets found matching the criteria">>})
    ELSE {<<"Wallets exported">>, <<"exports/wallet-export-">> \o now \o <<format>>,
          <<ToString(done.count)>>}

\* the loop of importWallets from record i on: the name of every record that
\* could not be saved goes into a message
RECURSIVE ImportLoopLogged(_, _, _, _, _)
ImportLoopLogged(dir, wallets, i, network, overwrite) ==
    IF i > Len(wallets) THEN {}
    ELSE LET wallet == wallets[i]
             name == IF Has(wallet, "name") THEN Get(wallet, "name") ELSE Undefined
             found == ListWallets(dir, Filter(IF Has(wallet, "name") THEN name ELSE <<>>,
                                              network))
             exists == ~found.threw /\ Len(found.wallets) > 0
             saved == SaveWallet(dir, wallet)
         IN ListLogged(found)
               \cup (IF (exists /\ ~overwrite) \/ ~saved.threw THEN {}
                     ELSE {<<"Failed to import wallet ">> \o name, TypeErrorMessage})
               \cup ImportLoopLogged(IF exists /\ ~overwrite THEN dir ELSE saved.dir,
                                     wallets, i + 1, network, overwrite)

\* importWallets and the import command: the counts, or the error that ended
\* the call, whose message is message when it is the SyntaxError of JSON.parse
ImportLogged(dir, f, done, network, overwrite, message) ==
    LET parsed == ParseImport(f)
    IN IF parsed.threw
       THEN {<<"Failed to import wallets">>,
             IF f.kind = "csv" THEN TypeErrorMessage ELSE message}
       ELSE ImportLoopLogged(dir, parsed.wallets, 1, network, overwrite)
               \cup {<<"Wallets imported">>, <<ToString(done.imported)>>,
                     <<ToString(done.skipped)>>}

\* deleteWallets and the delete command: the count, or the error
DeleteLogged(found, done) ==
    IF done.threw
    THEN ListLogged(found)
            \cup {<<"Failed to delete wallets">>}
            \cup (IF found.threw THEN {}
                  ELSE {TypeErrorMessage, <<"ENOENT: no such file or directory">>})
    ELSE IF Len(found.wallets) = 0 THEN {}
    ELSE {<<"Wallets deleted">>, <<ToString(done.deleted)>>}

\* createWallet({name, network, mnemonic}): the key pair is a new one
CreateWalletCall(in) ==
    \E name \in in.names, network \in in.blockchains,
       useMnemonic \in in.mnemonics, qr \in in.qrs, d \in in.keys,
       now \in in.dates :
        LET made == CreateWalletWithQR(walletsPath, name, network, useMnemonic,
                                       qr, d, now)
        IN /\ walletCall.made < MaxWalletCalls
           /\ AddressOf(d) \notin StoredAddresses(walletsPath)
           /\ walletsPath' = made.dir
           /\ walletCall' = [WalletCall("createWallet") EXCEPT
                                !.filter = Filter(name, <<network>>),
                                !.useMnemonic = useMnemonic,
                                !.walletData = made.walletData,
                                !.logged = CreateLogged(made, network),
                                !.qr = qr,
                                !.err = made.threw,
                                !.outcome = Outcome(made.threw # "none")]
           /\ UNCHANGED NetworkVars

\* listWallets(options)
ListWalletsCall(in) ==
    \E options \in in.filters :
        LET found == ListWallets(walletsPath, options)
        IN /\ walletCall.made < MaxWalletCalls
           /\ walletCall' = [WalletCall("listWallets") EXCEPT
                                !.filter = options,
                                !.wallets = found.wallets,
                                !.logged = ListCommandLogged(found),
                                !.outcome = Outcome(found.threw)]
           /\ UNCHANGED walletsPath
           /\ UNCHANGED NetworkVars

\* exportWallets({name, network, format})
ExportWalletsCall(in) ==
    \E name \in in.patterns, network \in in.networks \cup {<<>>},
       format \in in.formats, now \in in.dates :
        LET done == ExportWallets(walletsPath, name, network, format, now)
            found == ListWallets(walletsPath, Filter(name, network))
        IN /\ walletCall.made < MaxWalletCalls
           /\ walletsPath' = done.dir
           /\ walletCall' = [WalletCall("exportWallets") EXCEPT
                                !.filter = Filter(name, network),
                                !.format = format,
                                !.count = done.count,
                                !.logged = ExportLogged(found, done, format, now),
                                !.outcome = Outcome(done.threw)]
           /\ UNCHANGED NetworkVars

\* the files an import can be given: an export under walletsPath, or a file
\* from elsewhere
ImportSources(in) ==
    {f \in walletsPath : f.path.dir = <<"exports">>} \cup in.files

\* importWallets({file, network, overwrite})
ImportWalletsCall(in) ==
    \E f \in ImportSources(in), network \in in.networks, overwrite \in BOOLEAN :
      \E message \in IF f.kind = "garbage" THEN SyntaxErrorMessages(f)
                      ELSE {<<>>} :
        LET parsed == ParseImport(f)
            done == ImportWallets(walletsPath, f, network, overwrite)
        IN /\ walletCall.made < MaxWalletCalls
           /\ walletsPath' = done.dir
           /\ walletCall' = [WalletCall("importWallets") EXCEPT
                                !.filter = Filter(<<>>, network),
                                !.overwrite = overwrite,
                                !.format = f.kind,
                                !.records = parsed.wallets,
                                !.imported = done.imported,
                                !.skipped = done.skipped,
                                !.logged = ImportLogged(walletsPath, f, done, network,
                                                        overwrite, message),
                                !.outcome = Outcome(done.threw)]
           /\ UNCHANGED NetworkVars

\* deleteWallets({name, network})
DeleteWalletsCall(in) ==
    \E name \in in.patterns, network \in in.networks \cup {<<>>} :
        LET done == DeleteWallets(walletsPath, name, network)
            found == ListWallets(walletsPath, Filter(name, network))
        IN /\ walletCall.made < MaxWalletCalls
           /\ walletsPath' = done.dir
           /\ walletCall' = [WalletCall("deleteWallets") EXCEPT
                                !.filter = Filter(name, network),
                                !.deleted = done.deleted,
                                !.logged = DeleteLogged(found, done),
                                !.outcome = Outcome(done.threw)]
           /\ UNCHANGED NetworkVars

\* ------------------------------------------------------------ listNetworks

Flag(b) == IF b THEN "true" ELSE "false"

\* the callback of the filter of listNetworks, with every flag an equality
ListedByEquality(network, options) ==
    /\ options.testnet # "undefined" => Flag(network.isTestnet) = options.testnet
    /\ options.active # "undefined" => Flag(network.isActive) = options.active
    /\ options.mainnet # "undefined" => Flag(network.isTestnet) # options.mainnet

\* the callback of the filter of listNetworks
Listed(network, options) ==
    IF options.testnet # "undefined" /\ Flag(network.isTestnet) # options.testnet
    THEN FALSE
    ELSE IF options.active = "true" /\ ~network.isActive
    THEN FALSE
    ELSE IF options.mainnet # "undefined" /\ Flag(network.isTestnet) = options.mainnet
    THEN FALSE
    ELSE TRUE

\* networks.filter(...)
ListNetworks(nets, options) ==
    LET Keep(network) == Listed(network, options)
    IN SelectSeq(nets, Keep)

\* listNetworks(options): the registry is read, and what is read is filtered
ListNetworksCall(c) ==
    \E options \in [active : Flags, testnet : Flags, mainnet : Flags] :
        /\ CanBegin(c)
        /\ calls' = BeginCall(c, Returned([NewCall("listNetworks", NoName) EXCEPT
                                              !.list = options,
                                              !.results = ListNetworks(file, options)]))
        /\ started' = started + 1
        /\ UNCHANGED <<file, providers, activeNetwork, monitoringInterval, timers,
                       events, walletsPath, walletCall>>

\* -------------------------------------------------------------------- next

\* the operations that write the registry, with the inputs of the calls and
\* the answers of the endpoints drawn from the sets of in
Step(in) ==
    \/ \E c \in Procs :
        \/ \E options \in in.options, rpc \in in.rpcs :
              AddNetworkValidate(c, options, rpc)
        \/ AddNetworkLoad(c)
        \/ AddNetworkSave(c)
        \/ RemoveNetworkLoad(c)
        \/ RemoveNetworkSave(c)
        \/ SwitchNetworkLoad(c)
        \/ \E answer \in in.answers : SwitchNetworkTest(c, answer)
        \/ SwitchNetworkSave(c)
        \/ \E items \in in.files, overwrite \in BOOLEAN :
              ImportNetworksLoad(c, items, overwrite)
        \/ CleanupLoad(c)
        \/ \E answer \in in.answers : CleanupStatus(c, answer)
        \/ BenchmarkNetworkLoad(c)
        \/ \E oks \in in.oks, errs \in in.errors : BenchmarkNetworkRun(c, oks, errs)
        \/ BenchmarkNetworkSave(c)
        \/ StartMonitoringLoad(c)
        \/ \E answer \in in.answers : StartMonitoringInitial(c, answer)
        \/ StartMonitoringInitialSave(c)
        \/ StartMonitoringSave(c)
        \/ StopMonitoringLoad(c)
        \/ StopMonitoringSave(c)
    \/ \E t \in DOMAIN timers :
        \/ \E answer \in in.answers : MonitorTick(t, answer)
        \/ MonitorTickSave(t)

\* the inputs of the interleaved runs: a name, and an endpoint that answers
\* or does not
PlainInputs ==
    [options |-> {NetworkOptions(n, NoChainId, NoRetryAttempts) : n \in Names},
     rpcs |-> {Rpc("ok", 1, "ok", 1, "fast"),
               Rpc("timeout", NoChainId, "fail", 0, "fail")},
     answers |-> {"ok", "error"},
     files |-> {<<NetworkOptions("a", 1, NoRetryAttempts),
                  NetworkOptions("b", 1, NoRetryAttempts)>>},
     oks |-> {1},
     errors |-> {0}]

\* every input the model draws
AllInputs ==
    [options |-> AddOptions, rpcs |-> ValidationRpcs, answers |-> ProbeAnswers,
     files |-> ImportFiles, oks |-> OkCounts, errors |-> ErrorCounts]

\* the steps of the calls in flight interleave freely
Next == Step(PlainInputs)

Spec == Init /\ [][Next]_vars

\* one call at a time: a call is made when the one before it has finished,
\* and no timer fires while a call is in flight
Sequential ==
    Cardinality({c \in Procs : InFlight(c)})
        + Cardinality({t \in DOMAIN timers : timers[t].pc # "idle"}) <= 1

SeqNext ==
    /\ Step(AllInputs)
    /\ Sequential'
    /\ UNCHANGED <<calls, started>> => \A c \in Procs : Free(c)

SeqSpec == Init /\ [][SeqNext]_vars

\* the probes, with the operations that change what they look at
ProbeNext ==
    \E c \in Procs :
        \/ SwitchNetworkLoad(c)
        \/ \E answer \in ProbeAnswers : SwitchNetworkTest(c, answer)
        \/ SwitchNetworkSave(c)
        \/ RemoveNetworkLoad(c)
        \/ RemoveNetworkSave(c)
        \/ TestNetworkCall(c)
        \/ GetNetworkStatusCall(c)
        \/ SyncNetworkCall(c)
        \/ SyncAllNetworksLoad(c)
        \/ SyncAllNetworksProbe(c)

ProbeSpec == Init /\ [][ProbeNext]_vars

\* the provider cache: the calls that fill it and the calls that change the
\* registry under it, their steps interleaved
CacheNext ==
    \E c \in Procs :
        \/ \E options \in PlainInputs.options, rpc \in PlainInputs.rpcs :
              AddNetworkValidate(c, options, rpc)
        \/ AddNetworkLoad(c)
        \/ AddNetworkSave(c)
        \/ RemoveNetworkLoad(c)
        \/ RemoveNetworkSave(c)
        \/ GetProviderLoad(c)
        \/ GetProviderSet(c)

CacheSpec == Init /\ [][CacheNext]_vars

\* a record of an import file that was not written by this program's export
Record(name, network, d, useMnemonic) ==
    Stringify(GenerateWallet(name, network, useMnemonic, d, <<"t", "1">>))

Elsewhere(name) ==
    [dir |-> <<"elsewhere">>, name |-> name, network |-> <<>>, prefix |-> <<>>,
     ext |-> "json"]

\* import files: three wallets; a wallet with no address, then a good one; a
\* file that is not JSON
ThreeWallets ==
    ArrayFile(Elsewhere(<<"3">>),
              <<Record(<<"w">>, "ethereum", 1, FALSE),
                Record(<<"w", "x">>, "ethereum", 2, FALSE),
                Record(<<"y">>, "ethereum", 3, TRUE)>>)

NoAddress ==
    ArrayFile(Elsewhere(<<"2">>),
              << <<<<"name", <<"y">>>>, <<"network", <<"ethereum">>>>>>,
                 Record(<<"w">>, "ethereum", 3, FALSE) >>)

NotJson ==
    [path |-> Elsewhere(<<"0">>), kind |-> "garbage",
     value |-> Record(<<"w">>, "ethereum", 2, FALSE),
     items |-> <<>>, headers |-> <<>>]

\* the inputs of the calls that fill and empty the wallet store
StoreInputs ==
    [names |-> {<<"w">>, <<"w", "x">>},
     blockchains |-> {"ethereum", "bitcoin"},
     networks |-> {<<"ethereum">>, <<"bitcoin">>},
     mnemonics |-> {FALSE},
     qrs |-> {"none"},
     keys |-> {1, 3},
     dates |-> {<<"t", "1">>},
     patterns |-> {<<"w">>, <<"w", "x">>, <<"w", "*">>},
     files |-> {ThreeWallets, NoAddress, NotJson}]

\* no network is registered while the wallets are worked on
StoreInit == Init /\ file = <<>>

\* the wallet store: wallets are created, imported and deleted, one call after
\* the other
StoreNext ==
    \/ CreateWalletCall(StoreInputs)
    \/ ImportWalletsCall(StoreInputs)
    \/ DeleteWalletsCall(StoreInputs)

StoreSpec == StoreInit /\ [][StoreNext]_vars

\* the inputs of the calls that list, export and import back
ExportInputs ==
    [names |-> {<<"w">>, <<"w", "x">>},
     blockchains |-> {"ethereum"},
     networks |-> {<<"ethereum">>},
     mnemonics |-> BOOLEAN,
     qrs |-> {"none"},
     keys |-> {2},
     dates |-> {<<"t", "2">>},
     patterns |-> {<<"w">>, <<"w", "x">>},
     formats |-> {"json", "csv"},
     filters |-> {[network |-> network, name |-> name, hash |-> hash, date |-> date] :
                     network \in {<<>>, <<"ethereum">>}, name \in {<<>>, <<"w">>},
                     hash \in {<<>>, <<"x", "a">>}, date \in {<<>>, <<"t", "2">>}},
     files |-> {}]

\* stores createWallet has made: none, one or two wallets, with and without
\* a phrase
Stocks ==
    LET One(useMnemonic) ==
            CreateWallet({}, <<"w">>, "ethereum", useMnemonic, 1, <<"t", "1">>).dir
        Two(first, name, network, useMnemonic) ==
            CreateWallet(One(first), name, network, useMnemonic, 3, <<"t", "2">>).dir
    IN {{}} \cup {One(m) : m \in BOOLEAN}
            \cup {Two(first, name, network, m) :
                     first \in BOOLEAN, name \in {<<"w">>, <<"w", "x">>},
                     network \in {"ethereum", "bitcoin"}, m \in BOOLEAN}

ExportInit ==
    /\ file = <<>>
    /\ providers = {}
    /\ activeNetwork = NoName
    /\ monitoringInterval = NoTimer
    /\ timers = <<>>
    /\ calls = [c \in Procs |-> IdleCall]
    /\ started = 0
    /\ events = [on |-> FALSE, log |-> <<>>]
    /\ walletsPath \in Stocks
    /\ walletCall = NoWalletCall

\* the wallets of a store are listed, exported, imported back and deleted, and
\* new ones are created, one call after the other
ExportNext ==
    \/ CreateWalletCall(ExportInputs)
    \/ ListWalletsCall(ExportInputs)
    \/ ExportWalletsCall(ExportInputs)
    \/ ImportWalletsCall(ExportInputs)
    \/ DeleteWalletsCall(ExportInputs)

ExportSpec == ExportInit /\ [][ExportNext]_vars

\* the inputs of the calls that create wallets: every supported blockchain,
\* and one that is not
CreateInputs ==
    [names |-> {<<"w">>},
     blockchains |-> SupportedNetworks \cup {"Ethereum", "solana"},
     mnemonics |-> BOOLEAN,
     qrs |-> {"none", "terminal", "png"},
     keys |-> {1, 3},
     dates |-> {<<"t", "1">>}]

\* wallets are created, one after the other
CreateNext == CreateWalletCall(CreateInputs)

CreateSpec == StoreInit /\ [][CreateNext]_vars

\* registries of mainnets and testnets, listed
ListRegistries ==
    LET configs == {[NetworkConfig(n, 1, act, Fresh) EXCEPT !.isTestnet = test] :
                       n \in Names, act \in BOOLEAN, test \in BOOLEAN}
    IN {nets \in {<<>>} \cup {<<x>> : x \in configs}
                        \cup {<<x, y>> : x \in configs, y \in configs} :
           WellFormed(nets)}

ListInit ==
    /\ file \in ListRegistries
    /\ providers = {}
    /\ activeNetwork = NoName
    /\ monitoringInterval = NoTimer
    /\ timers = <<>>
    /\ calls = [c \in Procs |-> IdleCall]
    /\ started = 0
    /\ events = [on |-> FALSE, log |-> <<>>]
    /\ walletsPath = {}
    /\ walletCall = NoWalletCall

ListNext == \E c \in Procs : ListNetworksCall(c)

ListSpec == ListInit /\ [][ListNext]_vars

\* addNetwork alone, two calls interleaved, with every retryAttempts a caller
\* can pass: absent or 0, 1, 2 and a negative one
RetryAttemptsChoices == {NoRetryAttempts, 1, 2, -1}

RetryOptions ==
    {NetworkOptions(n, NoChainId, r) : n \in Names, r \in RetryAttemptsChoices}

RetryNext ==
    \E c \in Procs :
        \/ \E options \in RetryOptions, rpc \in ValidationRpcs :
              AddNetworkValidate(c, options, rpc)
        \/ AddNetworkLoad(c)
        \/ AddNetworkSave(c)

\* the promises a call awaits settle (the endpoint answers, or a timeout
\* rejects), and the event loop runs every continuation that is ready
RetrySpec == Init /\ [][RetryNext]_vars /\ WF_vars(RetryNext)

\* monitoring with a listener: the calls that start and stop it, and the timers
MonitorStep ==
    \/ Listen
    \/ \E c \in Procs :
        \/ StartMonitoringLoad(c)
        \/ \E answer \in ProbeAnswers : StartMonitoringInitial(c, answer)
        \/ StartMonitoringInitialSave(c)
        \/ StartMonitoringSave(c)
        \/ StopMonitoringLoad(c)
        \/ StopMonitoringSave(c)
    \/ \E t \in DOMAIN timers :
        \/ \E answer \in ProbeAnswers : MonitorTick(t, answer)
        \/ MonitorTickSave(t)

\* one call at a time, and no timer fires while a call is in flight
MonitorNext ==
    /\ MonitorStep
    /\ Sequential'
    /\ UNCHANGED <<calls, started>> => \A c \in Procs : Free(c)

MonitorSpec == Init /\ [][MonitorNext]_vars

\* ------------------------------------------------------------------ claims

\* the step on which a call of op is made, in slot c
Begins(c, op) ==
    /\ CanBegin(c)
    /\ started' = started + 1
    /\ calls'[c].op = op

\* C1: in every reachable state, whatever the interleaving of the calls in
\* flight and of the monitoring ticks, at most one entry of the persisted
\* registry has isActive = true
C1_AtMostOneActive == Cardinality(ActiveIndices(file)) <= 1

\* a switch away from the active entry has returned while another call is in
\* flight
C1_Witness ==
    \E c, d \in Procs :
        /\ calls[c].op = "switchNetwork"
        /\ calls[c].outcome = "returned"
        /\ calls[c].previousNetwork \notin {NoName, calls[c].name}
        /\ InFlight(d)
        /\ Cardinality(ActiveIndices(file)) = 1

\* C2: a switchNetwork whose connectivity test failed does not go on to
\* persist the activation: it neither writes the registry nor returns success
C2_FailedTestNotActivated ==
    \A c \in Procs :
        (calls[c].op = "switchNetwork" /\ calls[c].test.error # NoError)
            => /\ ~calls[c].wrote
               /\ calls[c].outcome # "returned"

\* C3: the one write of a switchNetwork(name) that succeeds leaves isActive =
\* true on exactly the entry called name, false on every other entry and
\* every other field as it was, and the call reports as previousNetwork the
\* entry that was active before it (none if there was none)
C3_SwitchActivatesExactlyOne ==
    [][\A c \in Procs :
          (calls[c].op = "switchNetwork" /\ calls[c].pc = "switchSave"
              /\ calls'[c].pc = "done")
          => /\ calls'[c].outcome = "returned"
             /\ calls'[c].previousNetwork = ActiveName(file)
             /\ Len(file') = Len(file)
             /\ \A i \in DOMAIN file :
                   file'[i] = [file[i] EXCEPT
                                  !.isActive = (file[i].name = calls[c].name)]
             /\ ActiveIndices(file') = {FindIndex(file, calls[c].name)}
             /\ activeNetwork' = calls[c].name]_vars

\* a switch from one entry to the other has returned
C3_Witness ==
    \E c \in Procs :
        /\ calls[c].op = "switchNetwork"
        /\ calls[c].outcome = "returned"
        /\ calls[c].previousNetwork \notin {NoName, calls[c].name}
        /\ Len(file) = 2
        /\ ActiveName(file) = calls[c].name
        /\ activeNetwork = calls[c].name

\* C4: removeNetwork(name) fails with NetworkNotFound when no entry has the
\* name and with CannotRemoveActiveNetwork when the entry is active, leaving
\* the registry and the provider cache as they were; otherwise it removes
\* exactly the named entry, and the handle cached for it
C4_RemoveNetwork ==
    [][\A c \in Procs :
          /\ Begins(c, "removeNetwork") =>
                LET rec == calls'[c]
                    index == FindIndex(file, rec.name)
                IN /\ file' = file
                   /\ providers' = providers
                   /\ index = 0 =>
                         rec.outcome = "threw" /\ rec.err = "NetworkNotFound"
                   /\ (index # 0 /\ file[index].isActive) =>
                         /\ rec.outcome = "threw"
                         /\ rec.err = "CannotRemoveActiveNetwork"
                   /\ (index # 0 /\ ~file[index].isActive) => rec.pc = "removeSave"
                   /\ rec.outcome = "threw" => ~rec.wrote /\ ~rec.evicted
          /\ (calls[c].op = "removeNetwork" /\ calls[c].pc = "removeSave"
                 /\ calls'[c].pc = "done") =>
                /\ calls'[c].outcome = "returned"
                /\ file' = Splice(file, FindIndex(file, calls[c].name))
                /\ calls[c].name \notin NamesOf(file')
                /\ providers' = providers \ {calls[c].name}]_vars

\* removeNetwork of the active entry, whose handle is cached, has failed
C4_Witness ==
    \E c \in Procs :
        /\ calls[c].op = "removeNetwork"
        /\ calls[c].outcome = "threw"
        /\ calls[c].err = "CannotRemoveActiveNetwork"
        /\ ActiveName(file) = calls[c].name
        /\ calls[c].name \in providers

\* C5: an addNetwork that surfaces a transient connectivity failure (timeout,
\* DNS failure, connection refused) has made every validation attempt its
\* retryAttempts allows, 3 by default
C5_RetriedBeforeSurfacing ==
    \A c \in Procs :
        (/\ calls[c].op = "addNetwork"
         /\ calls[c].outcome = "threw"
         /\ \E net \in {"timeout", "getaddrinfo", "ECONNREFUSED"} :
               calls[c].validation.errors = <<ConnectionError(net)>>)
            => calls[c].attempts = MaxRetries(calls[c].options)

\* the step on which the addNetwork call in slot c ends
AddEnds(c) ==
    /\ calls'[c].op = "addNetwork"
    /\ calls'[c].pc = "done"
    /\ \/ Begins(c, "addNetwork")
       \/ calls[c].op = "addNetwork" /\ calls[c].pc \in {"addLoad", "addSave"}

\* C6, as amended: addNetwork persists a new entry if and only if its
\* validation returned isValid = true and no entry of that name is in the
\* registry (warnings alone never block the add); when it fails, with
\* InvalidNetworkConfig or with DuplicateNetworkName, the registry is as it was
C6_AddPersistsIffValidAndNew ==
    [][\A c \in Procs :
          AddEnds(c) =>
             LET rec == calls'[c]
             IN /\ rec.wrote <=> (/\ rec.validation.isValid
                                  /\ rec.options.name \notin NamesOf(file))
                /\ rec.wrote =>
                      /\ rec.outcome = "returned"
                      /\ file' = Append(file, rec.newNetwork)
                /\ ~rec.wrote =>
                      /\ rec.outcome = "threw"
                      /\ rec.err = IF rec.validation.isValid
                                   THEN "DuplicateNetworkName"
                                   ELSE "InvalidNetworkConfig"
                      /\ file' = file]_vars

\* an add whose validation came back valid with a warning has been persisted
C6_Witness ==
    \E c \in Procs :
        /\ calls[c].op = "addNetwork"
        /\ calls[c].outcome = "returned"
        /\ calls[c].wrote
        /\ calls[c].validation.warnings # <<>>
        /\ calls[c].options.name \in NamesOf(file)

\* C6, as stated: addNetwork persists a new entry if and only if its
\* validation returned isValid = true
C6_AddPersistsIffValid ==
    \A c \in Procs :
        (calls[c].op = "addNetwork" /\ calls[c].pc = "done")
            => (calls[c].wrote <=> calls[c].validation.isValid)

UniqueNames(nets) ==
    \A i, j \in DOMAIN nets : nets[i].name = nets[j].name => i = j

\* C7, as amended: an addNetwork of a name that is already in the registry
\* fails and writes nothing, with DuplicateNetworkName when its validation
\* came back valid and with InvalidNetworkConfig when it did not; the entry an
\* add creates has isActive = false; and in every reachable state no two
\* entries of the registry share a name
C7_NamesStayUnique ==
    /\ []UniqueNames(file)
    /\ [][\A c \in Procs :
             AddEnds(c) =>
                LET rec == calls'[c]
                IN /\ rec.options.name \in NamesOf(file) =>
                         /\ rec.outcome = "threw"
                         /\ rec.err = IF rec.validation.isValid
                                      THEN "DuplicateNetworkName"
                                      ELSE "InvalidNetworkConfig"
                         /\ file' = file
                   /\ rec.outcome = "returned" =>
                         /\ file'[Len(file')].name = rec.options.name
                         /\ ~file'[Len(file')].isActive]_vars

\* an add of a name that is in the registry has failed as a duplicate
C7_Witness ==
    \E c \in Procs :
        /\ calls[c].op = "addNetwork"
        /\ calls[c].outcome = "threw"
        /\ calls[c].err = "DuplicateNetworkName"
        /\ calls[c].options.name \in NamesOf(file)

\* C7, as stated: addNetwork fails with DuplicateNetworkName whenever an entry
\* of the same name is already in the registry
C7_DuplicateAlwaysReported ==
    [][\A c \in Procs :
          (AddEnds(c) /\ calls'[c].options.name \in NamesOf(file))
             => /\ calls'[c].outcome = "threw"
                /\ calls'[c].err = "DuplicateNetworkName"]_vars

\* C8: a validation that obtained a chain id different from the one the caller
\* expects has the chain-id-mismatch error and isValid = false, and the add it
\* belongs to stores nothing
C8_MismatchIsInvalid ==
    \A c \in Procs :
        (/\ calls[c].op = "addNetwork"
         /\ calls[c].attempts > 0
         /\ calls[c].options.chainId # NoChainId
         /\ calls[c].validation.chainId # NoChainId
         /\ calls[c].options.chainId # calls[c].validation.chainId)
            => /\ ~calls[c].validation.isValid
               /\ \E i \in DOMAIN calls[c].validation.errors :
                     calls[c].validation.errors[i] = "Chain ID mismatch"
               /\ ~calls[c].wrote

\* C9: testNetwork never throws; it returns success = false with an error
\* message on every failure (no name and no active network, unknown name, RPC
\* error, no answer within the timeout) and success = true only when the
\* endpoint answered in time
C9_TestNetworkReturns ==
    [][\A c \in Procs :
          Begins(c, "testNetwork") =>
             LET rec == calls'[c]
                 networkName == IF rec.name # NoName THEN rec.name
                                ELSE activeNetwork
                 known == networkName \in providers \cup NamesOf(file)
             IN /\ rec.pc = "done"
                /\ rec.outcome = "returned"
                /\ rec.test.success <=> rec.test.error = NoError
                /\ rec.test.success <=>
                      (networkName # NoName /\ known /\ rec.rpc = "ok")
                /\ networkName = NoName => rec.test.error = "NoActiveNetwork"
                /\ (networkName # NoName /\ ~known) =>
                      rec.test.error = "NetworkNotFound"]_vars

\* a test of a network whose endpoint did not answer in time has returned
C9_Witness ==
    \E c \in Procs :
        /\ calls[c].op = "testNetwork"
        /\ calls[c].outcome = "returned"
        /\ ~calls[c].test.success
        /\ calls[c].test.error = "ConnectionTimeout"

\* C10: syncNetwork and syncAllNetworks never throw: every call returns its
\* results, each with status "synchronized" or "failed"
C10_SyncNeverThrows ==
    \A c \in Procs :
        (calls[c].op \in {"syncNetwork", "syncAllNetworks"} /\ calls[c].pc = "done")
            => /\ calls[c].outcome = "returned"
               /\ \A i \in DOMAIN calls[c].results :
                     calls[c].results[i].status \in {"synchronized", "failed"}

\* C11: getNetworkStatus(name?) fails with NoActiveNetwork exactly when no
\* name is given and no entry of the registry has been made the active
\* network by a switch; with a name, or with an active network, it queries
\* that network
C11_NoActiveNetworkExactly ==
    [][\A c \in Procs :
          Begins(c, "getNetworkStatus") =>
             LET rec == calls'[c]
             IN (rec.outcome = "threw" /\ rec.err = "NoActiveNetwork")
                   <=> (rec.name = NoName /\ ActiveName(file) = NoName)]_vars

\* C12: at most one monitoring loop is active at any time, whatever the
\* interleaving of the calls: at most one timer is live, and it is the timer
\* on record in monitoringInterval, the one stopNetworkMonitoring cancels
C12_OneMonitoringLoop ==
    /\ Cardinality({t \in DOMAIN timers : timers[t].live}) <= 1
    /\ \A t \in DOMAIN timers : timers[t].live => monitoringInterval = t

\* C13: once stopNetworkMonitoring has returned, and until another call is
\* made, no timer starts a health check
C13_NoCheckAfterStop ==
    [][(\E c \in Procs : /\ calls[c].op = "stopNetworkMonitoring"
                         /\ calls[c].pc = "done")
          => \A t \in DOMAIN timers :
                ~(timers[t].pc = "idle" /\ timers'[t].pc = "save")]_vars

\* C14: when stopNetworkMonitoring has returned, no call that started
\* monitoring is on record and no health check is in flight, every entry of
\* the registry has monitoringEnabled = false
C14_MonitoringDisabledAfterStop ==
    (/\ \E c \in Procs : /\ calls[c].op = "stopNetworkMonitoring"
                         /\ calls[c].pc = "done"
     /\ \A c \in Procs : /\ Free(c)
                         /\ calls[c].op # "startNetworkMonitoring"
     /\ \A t \in DOMAIN timers : timers[t].pc = "idle")
        => \A i \in DOMAIN file : ~file[i].monitoringEnabled

\* whether name n has lastValidated refreshed in the registry nets
Refreshed(nets, n) ==
    \E i \in DOMAIN nets : nets[i].name = n /\ nets[i].lastValidated = Fresh

\* a step of a timer's monitor, seen by a listener
TickStep ==
    /\ events.on
    /\ events'.on
    /\ UNCHANGED <<calls, started>>

\* C15, as amended: startNetworkMonitoring runs its first health check, and
\* emits its event, before it returns, and the timer runs the others; every
\* run of monitor emits exactly one event, networkStatus when the check
\* succeeded and monitoringError when it failed; a run whose check succeeded
\* refreshes lastValidated of the monitored network in the registry, and a
\* run whose check failed leaves the registry as it is
C15_OneEventPerTick ==
    [][/\ TickStep =>
             \/ \E t \in DOMAIN timers :
                   /\ timers[t].pc = "idle"
                   /\ timers'[t].pc = "save"
                   /\ events' = events
                   /\ file' = file
             \/ \E t \in DOMAIN timers :
                   /\ timers[t].pc = "save"
                   /\ timers'[t].pc = "idle"
                   /\ events'.log = Append(events.log,
                         [type |-> "networkStatus", name |-> timers[t].name])
                   /\ Refreshed(file', timers[t].name)
             \/ \E t \in DOMAIN timers :
                   /\ timers[t].live
                   /\ timers' = timers
                   /\ events'.log = Append(events.log,
                         [type |-> "monitoringError", name |-> timers[t].name])
                   /\ file' = file
       /\ \A c \in Procs :
             (/\ events.on
              /\ calls[c].pc \in {"monitorInitial", "monitorInitialSave"}
              /\ calls'[c].pc = "monitorSave")
                => /\ calls'[c].status \in {"networkStatus", "monitoringError"}
                   /\ events'.log = Append(events.log,
                         [type |-> calls'[c].status, name |-> calls[c].name])
                   /\ calls'[c].status = "networkStatus"
                         => Refreshed(file', calls[c].name)
                   /\ calls'[c].status = "monitoringError" => file' = file
       /\ \A c \in Procs :
             (calls[c].op = "startNetworkMonitoring" /\ calls[c].pc = "monitorSave"
                 /\ calls'[c].pc = "done")
                => calls'[c].status \in {"networkStatus", "monitoringError"}]_vars

\* a listener has been handed the events of a check that succeeded and of one
\* that failed, and the entry monitored was not refreshed by the one that
\* failed
C15_Witness ==
    /\ \E i, j \in DOMAIN events.log :
          /\ events.log[i].type = "networkStatus"
          /\ events.log[j].type = "monitoringError"
          /\ ~Refreshed(file, events.log[j].name)
    /\ \E t \in DOMAIN timers : timers[t].live

\* C15, as stated: every run of monitor, successful or not, refreshes
\* lastValidated of the monitored network
C15_EveryTickRefreshes ==
    [][(TickStep /\ Len(events'.log) > Len(events.log))
          => Refreshed(file', events'.log[Len(events'.log)].name)]_vars

\* C16: benchmarkNetwork on a network of the registry does not throw; when
\* the endpoint fails every request the result has errorRate = 1,
\* requestsPerSecond = 0 and average, minimum and maximum latency 0, and the
\* result returned is the one saved in benchmarkResults of the entry
C16_BenchmarkAllErrors ==
    [][\A c \in Procs :
          /\ (Begins(c, "benchmarkNetwork") /\ calls'[c].name \in NamesOf(file))
                => calls'[c].pc = "benchmarkRun"
          /\ (calls[c].op = "benchmarkNetwork" /\ calls[c].pc = "benchmarkSave"
                 /\ calls'[c].pc = "done")
                => LET result == calls'[c].benchmark
                   IN /\ calls'[c].outcome = "returned"
                      /\ \E i \in DOMAIN file' :
                            /\ file'[i].name = calls[c].name
                            /\ file'[i].benchmarkResults = result
                      /\ (result.requestCount = 0 /\ result.errors > 0)
                            => /\ result.errorRate.num = result.errorRate.den
                               /\ result.requestsPerSecond.num = 0
                               /\ result.averageLatency = 0
                               /\ result.minLatency = 0
                               /\ result.maxLatency = 0
                               /\ ~result.success]_vars

\* a benchmark against an endpoint that failed every request has returned,
\* and its result is in the registry
C16_Witness ==
    \E c \in Procs :
        /\ calls[c].op = "benchmarkNetwork"
        /\ calls[c].outcome = "returned"
        /\ calls[c].benchmark.requestCount = 0
        /\ calls[c].benchmark.errors > 0
        /\ \E i \in DOMAIN file :
              /\ file[i].name = calls[c].name
              /\ file[i].benchmarkResults = calls[c].benchmark

\* C17: when cleanup is called with an inactive threshold, a network whose
\* live status check fails is removed: the check that fails is followed by
\* removeNetwork of that network
C17_UnreachableRemoved ==
    [][\A c \in Procs :
          (/\ calls[c].op = "cleanup"
           /\ calls[c].pc = "cleanupStatus"
           /\ \E answer \in ProbeAnswers \ {"ok"} :
                 calls'[c] = CleanupAfterStatus(calls[c],
                                GetNetworkStatus(calls[c].name, activeNetwork,
                                                 providers, file, answer)))
             => /\ calls'[c].pc = "removeLoad"
                /\ calls'[c].name = calls[c].name]_vars

\* the step on which the cleanup call in slot c ends, and the registry the
\* call loaded
CleanupEnds(c) ==
    /\ calls'[c].op = "cleanup"
    /\ calls'[c].pc = "done"
    /\ \/ Begins(c, "cleanup")
       \/ calls[c].op = "cleanup" /\ InFlight(c)

CleanupLoaded(c) == IF InFlight(c) THEN calls[c].networks ELSE file

\* the names in a sequence of names
Range(seq) == {seq[i] : i \in DOMAIN seq}

\* C18: cleanup called with an unvalidated threshold removes, and lists in its
\* result, every network other than the active one whose lastValidated is
\* older than the threshold, whether or not an inactive threshold was given
\* and whatever the status check of the network answered
C18_StaleRemoved ==
    [][\A c \in Procs :
          (CleanupEnds(c) /\ calls'[c].unvalidated)
             => \A i \in DOMAIN CleanupLoaded(c) :
                   LET network == CleanupLoaded(c)[i]
                   IN (network.lastValidated = Stale /\ ~network.isActive)
                         => /\ network.name \notin NamesOf(file')
                            /\ network.name \in Range(calls'[c].removed)]_vars

\* C19: cleanup never fails because of one network: a status check or a
\* removal that fails leaves the network in the registry and the loop goes
\* on; the call returns, the names it returns are exactly those of the
\* entries it removed from the registry, each once, and the active network
\* is not among them
C19_CleanupSkipsFailures ==
    [][\A c \in Procs :
          CleanupEnds(c) =>
             LET loaded == CleanupLoaded(c)
                 removed == calls'[c].removed
                 Kept(network) == network.name \notin Range(removed)
             IN /\ calls'[c].outcome = "returned"
                /\ Range(removed) = NamesOf(loaded) \ NamesOf(file')
                /\ \A i, j \in DOMAIN removed : removed[i] = removed[j] => i = j
                /\ file' = SelectSeq(loaded, Kept)
                /\ \A i \in DOMAIN loaded :
                      loaded[i].isActive => loaded[i].name \notin Range(removed)]_vars

\* a cleanup by age alone has returned although the removal of the active
\* network, which is older than the threshold, failed
C19_Witness ==
    \E c \in Procs :
        /\ calls[c].op = "cleanup"
        /\ calls[c].outcome = "returned"
        /\ calls[c].unvalidated
        /\ ~calls[c].inactive
        /\ \E i \in DOMAIN file :
              file[i].isActive /\ file[i].lastValidated = Stale

\* C20: importNetworks isolates the entries of the import file: a failure of
\* add or of the replace step for one entry is caught, so the call does not
\* fail and every entry that can be imported is in the registry when it ends
C20_ImportIsolatesItems ==
    \A c \in Procs :
        (calls[c].op = "importNetworks" /\ calls[c].pc = "done")
            => calls[c].outcome = "returned"

\* C21: in every reachable state a connection handle is cached only for a
\* name that is in the registry: the handle of a removed network is gone
C21_HandlesOnlyForRegistered ==
    providers \subseteq NamesOf(file)

\* the wallet records the store holds: the files of walletsPath itself
Stored(dir) == {f \in dir : f.path.dir = <<>>}

SamePair(f, g) ==
    /\ Get(f.value, "name") = Get(g.value, "name")
    /\ Get(f.value, "network") = Get(g.value, "network")

\* C22: wallet names are unique per network: whatever wallets were created,
\* imported and deleted, no two records of the store have the same name and
\* the same network
C22_NamesUniquePerNetwork ==
    \A f, g \in Stored(walletsPath) : SamePair(f, g) => f = g

\* importWallets has returned from a file whose records can all be saved
ImportReturns ==
    /\ walletCall'.op = "importWallets"
    /\ walletCall'.made = walletCall.made + 1
    /\ walletCall'.outcome = "returned"
    /\ \A i \in DOMAIN walletCall'.records : Has(walletCall'.records[i], "address")

\* a stored wallet has exactly this name and this network
ExactlyStored(dir, name, network) ==
    \E f \in Stored(dir) : /\ Get(f.value, "name") = name
                           /\ Get(f.value, "network") = network

\* the records skipped from record i on when a record is skipped if and only
\* if overwrite is false and its name is stored on the target network
RECURSIVE SkippedExactly(_, _, _, _, _)
SkippedExactly(dir, wallets, i, network, overwrite) ==
    IF i > Len(wallets) THEN {}
    ELSE IF ~overwrite /\ ExactlyStored(dir, Get(wallets[i], "name"), network)
    THEN {i} \cup SkippedExactly(dir, wallets, i + 1, network, overwrite)
    ELSE SkippedExactly(SaveWallet(dir, wallets[i]).dir, wallets, i + 1,
                        network, overwrite)

\* C23: importWallets skips a record if and only if overwrite is false and a
\* stored wallet has exactly its name on the target network; a record whose
\* name is only part of a stored name, or is stored on another network only,
\* is written
C23_SkipsExactMatchesOnly ==
    [][ImportReturns =>
          walletCall'.skipped =
              Cardinality(SkippedExactly(walletsPath, walletCall'.records, 1,
                                         walletCall'.filter.network,
                                         walletCall'.overwrite))]_vars

\* the stored wallets that have the name and the network of record
StoredAs(dir, record) ==
    {f \in Stored(dir) : /\ Get(f.value, "name") = Get(record, "name")
                         /\ Get(f.value, "network") = Get(record, "network")}

\* C24: an import with overwrite = true replaces the stored record that has
\* the name and the network of an imported record: afterwards the store holds
\* exactly one record of that name on that network, also when the address of
\* the imported record is another one
C24_OverwriteReplaces ==
    [][(/\ walletCall'.op = "importWallets"
        /\ walletCall'.made = walletCall.made + 1
        /\ walletCall'.outcome = "returned"
        /\ walletCall'.overwrite)
          => \A i \in DOMAIN walletCall'.records :
                LET record == walletCall'.records[i]
                IN (/\ Has(record, "address")
                    /\ Get(record, "network") = walletCall'.filter.network
                    /\ StoredAs(walletsPath, record) # {})
                      => Cardinality(StoredAs(walletsPath', record)) = 1]_vars

\* the records of the import whose name a stored wallet has on the target
\* network
Colliding(dir, records, network) ==
    {i \in DOMAIN records : ExactlyStored(dir, Get(records[i], "name"), network)}

\* C25: an import that can be parsed returns counts that add up to the number
\* of records of the file, a record that cannot be saved being counted as
\* skipped; an import that cannot be parsed fails and writes nothing; and three
\* records of which one has the name of a stored wallet give imported = 2 and
\* skipped = 1 when overwrite is false
C25_ImportCounts ==
    [][(walletCall'.op = "importWallets" /\ walletCall'.made = walletCall.made + 1)
          => LET records == walletCall'.records
             IN /\ walletCall'.outcome = "returned"
                    => walletCall'.imported + walletCall'.skipped = Len(records)
                /\ walletCall'.outcome = "threw" => walletsPath' = walletsPath
                /\ (/\ ImportReturns
                    /\ ~walletCall'.overwrite
                    /\ Len(records) = 3
                    /\ Cardinality(Colliding(walletsPath, records,
                                             walletCall'.filter.network)) = 1)
                      => /\ walletCall'.imported = 2
                         /\ walletCall'.skipped = 1]_vars

\* name matches pattern, in which * stands for any characters; a pattern with
\* no * matches the name equal to it
RECURSIVE WildcardMatch(_, _)
WildcardMatch(pattern, name) ==
    IF pattern = <<>> THEN name = <<>>
    ELSE IF pattern[1] = "*"
    THEN \/ WildcardMatch(Tail(pattern), name)
         \/ name # <<>> /\ WildcardMatch(pattern, Tail(name))
    ELSE /\ name # <<>>
         /\ name[1] = pattern[1]
         /\ WildcardMatch(Tail(pattern), Tail(name))

\* C28: deleteWallets removes the records its arguments name and no other: the
\* records whose name is the given name, or matches it when it has a *, on
\* the given network if one is given; a record whose name only contains the
\* given name stays
C28_DeletesNamedOnly ==
    [][(/\ walletCall'.op = "deleteWallets"
        /\ walletCall'.made = walletCall.made + 1
        /\ walletCall'.outcome = "returned")
          => LET filter == walletCall'.filter
                 Named(f) ==
                    /\ WildcardMatch(filter.name, Get(f.value, "name"))
                    /\ filter.network # <<>>
                          => Get(f.value, "network") = filter.network
             IN walletsPath' = {f \in walletsPath : ~Named(f)}]_vars

\* the export made by the last call is imported back, in its format, with
\* overwrite = true
ImportsBack ==
    /\ walletCall.op = "exportWallets"
    /\ walletCall.outcome = "returned"
    /\ walletCall'.op = "importWallets"
    /\ walletCall'.made = walletCall.made + 1
    /\ walletCall'.overwrite
    /\ (walletCall.format = "csv") <=> (walletCall'.format = "csv")

\* C26: round trip: wallets that are exported and imported back from the file
\* of the export, in the same format and with overwrite = true, are in the
\* store as they were, field by field, whether they have a phrase or not
C26_RoundTrip ==
    [][ImportsBack
          => /\ walletCall'.outcome = "returned"
             /\ Stored(walletsPath') = Stored(walletsPath)]_vars

\* the stored records a filter selects
Selected(dir, filter) ==
    {f \in Stored(dir) : MatchesFilter(Parsed(f), filter) = "true"}

\* C27: deleteWallets returns the number of stored records its filter
\* selected before the call, 0 and no error when it selected none, and
\* listWallets with the same filter right after it finds nothing, in every
\* store that creating, importing and exporting lead to
C27_DeleteThenListIsEmpty ==
    [][(walletCall'.op = "deleteWallets" /\ walletCall'.made = walletCall.made + 1)
          => LET filter == walletCall'.filter
                 after == ListWallets(walletsPath', filter)
             IN /\ walletCall'.outcome = "returned"
                /\ walletCall'.deleted = Cardinality(Selected(walletsPath, filter))
                /\ ~after.threw
                /\ after.wallets = <<>>]_vars

\* C29: listWallets returns the stored records that satisfy every filter it
\* is given at once, all the stored records when it is given none, and leaves
\* the store as it is
C29_ListReturnsMatching ==
    [][(walletCall'.op = "listWallets" /\ walletCall'.made = walletCall.made + 1)
          => LET filter == walletCall'.filter
                 Satisfies(f) ==
                    LET wallet == f.value
                    IN /\ filter.network # <<>>
                             => Get(wallet, "network") = filter.network
                       /\ filter.name # <<>>
                             => Includes(Get(wallet, "name"), filter.name)
                       /\ filter.hash # <<>>
                             => Includes(ToLowerCase(Get(wallet, "address")),
                                         ToLowerCase(filter.hash))
                       /\ filter.date # <<>>
                             => DateOf(Get(wallet, "createdAt")) >= DateOf(filter.date)
             IN /\ walletCall'.outcome = "returned"
                /\ Range(walletCall'.wallets)
                      = {Parsed(f) : f \in {g \in Stored(walletsPath) : Satisfies(g)}}
                /\ Len(walletCall'.wallets)
                      = Cardinality({g \in Stored(walletsPath) : Satisfies(g)})
                /\ walletsPath' = walletsPath]_vars

\* createWallet is called for a supported blockchain, and its QR code, when
\* one is asked for, can be made
CreatesWallet ==
    /\ walletCall'.op = "createWallet"
    /\ walletCall'.made = walletCall.made + 1
    /\ NetworkToLowerCase(walletCall'.filter.network[1]) \in SupportedNetworks
    /\ walletCall'.err # "NoMnemonicAvailable"

\* C30: a wallet created on bitcoin or on an EVM-compatible blockchain has a
\* phrase if and only if it was created with useMnemonic = true, in the record
\* returned and in the record written; and its address and its private key are
\* those of one key pair
C30_MnemonicIffAsked ==
    [][CreatesWallet
          => LET walletData == walletCall'.walletData
                 written == {f \in walletsPath' :
                                f.path = WalletFileName(walletData)}
             IN /\ walletCall'.outcome = "returned"
                /\ (Get(walletData, "mnemonic") # Undefined)
                      <=> walletCall'.useMnemonic
                /\ \E d \in Keys3 :
                      /\ Get(walletData, "address") = AddressOf(d)
                      /\ Get(walletData, "privateKey") = PrivateKeyOf(d)
                      /\ walletCall'.useMnemonic
                            => Get(walletData, "mnemonic") = MnemonicOf(d)
                /\ \E f \in written :
                      /\ Has(f.value, "mnemonic") <=> walletCall'.useMnemonic
                      /\ \A key \in {"name", "network", "address", "privateKey",
                                     "createdAt"} :
                            Get(f.value, key) = Get(walletData, key)
                      /\ Has(f.value, "mnemonic")
                            => Get(f.value, "mnemonic") = Get(walletData, "mnemonic")]_vars

\* a wallet with a phrase has been created on bitcoin, in a store that holds
\* an EVM wallet created without one
C30_Witness ==
    /\ walletCall.op = "createWallet"
    /\ walletCall.outcome = "returned"
    /\ walletCall.useMnemonic
    /\ walletCall.filter.network = <<"bitcoin">>
    /\ Get(walletCall.walletData, "mnemonic") = MnemonicOf(3)
    /\ \E f \in Stored(walletsPath) :
          /\ Get(f.value, "network") # <<"bitcoin">>
          /\ ~Has(f.value, "mnemonic")

Secrets == {PrivateKeyOf(d) : d \in Keys3} \cup {MnemonicOf(d) : d \in Keys3}

\* C32: no operation on wallets, whether it returns or throws, hands a private
\* key or a phrase to the logger: no message, no value of the metadata and no
\* message of an error holds one
C32_NoSecretLogged ==
    \A value \in walletCall.logged :
        \A secret \in Secrets : ~Includes(value, secret)

\* listNetworks(options) returns in slot c
ListReturns(c) ==
    /\ calls'[c].op = "listNetworks"
    /\ calls'[c].pc = "done"
    /\ calls[c] # calls'[c] \/ started' # started

\* listNetworks returns the entries of the registry for which every flag that
\* is given holds as an equality, active among them
C33_FlagsAreEqualities ==
    [][\A c \in Procs :
          ListReturns(c)
             => LET Keep(network) == ListedByEquality(network, calls'[c].list)
                IN calls'[c].results = SelectSeq(file, Keep)]_vars

\* C33: listNetworks(options) returns, in the order of the registry, exactly
\* the entries for which every flag holds, each flag on its own: testnet, when
\* given, is the value of isTestnet; mainnet, when given, is the negation of
\* isTestnet; active = true keeps the entries with isActive, and active = false
\* or absent keeps them all; and the registry is left as it is
C33_ListIsPureFilter ==
    [][\A c \in Procs :
          ListReturns(c)
             => LET options == calls'[c].list
                    Testnet(network) ==
                        options.testnet # "undefined"
                           => Flag(network.isTestnet) = options.testnet
                    Mainnet(network) ==
                        options.mainnet # "undefined"
                           => Flag(~network.isTestnet) = options.mainnet
                    Active(network) ==
                        options.active = "true" => network.isActive
                    Keep(network) ==
                        Testnet(network) /\ Mainnet(network) /\ Active(network)
                IN /\ calls'[c].results = SelectSeq(file, Keep)
                   /\ calls'[c].outcome = "returned"
                   /\ file' = file]_vars

\* a listing with active = false and testnet = true has returned a testnet
\* that is active and left a mainnet out
C33_Witness ==
    \E c \in Procs :
        /\ calls[c].op = "listNetworks"
        /\ calls[c].pc = "done"
        /\ calls[c].list.active = "false"
        /\ calls[c].list.testnet = "true"
        /\ Len(file) = 2
        /\ Len(calls[c].results) = 1
        /\ calls[c].results[1].isActive

\* the step on which the addNetwork call in slot c returns or throws
AddFinishes(c) ==
    /\ calls'[c].op = "addNetwork"
    /\ calls'[c].pc = "done"
    /\ calls[c] # calls'[c] \/ started' # started

\* every addNetwork validates at least once and at most maxRetries times
C34_ValidatesAtLeastOnce ==
    [][\A c \in Procs :
          AddFinishes(c)
             => /\ calls'[c].attempts >= 1
                /\ calls'[c].attempts <= MaxRetries(calls'[c].options)]_vars

\* C34: every addNetwork ends, with the new entry in the registry or with an
\* error; when retryAttempts is positive, or is absent or 0 (3 turns then), it
\* has called validateNetwork at least once and at most that many times; when
\* retryAttempts is negative it has not called validateNetwork at all, and
\* fails with InvalidNetworkConfig and the registry as it was
C34_AddTerminatesWithinBound ==
    /\ [][\A c \in Procs :
             AddFinishes(c)
                => LET rec == calls'[c]
                       maxRetries == MaxRetries(rec.options)
                   IN /\ maxRetries >= 1
                         => rec.attempts >= 1 /\ rec.attempts <= maxRetries
                      /\ maxRetries < 1
                         => /\ rec.attempts = 0
                            /\ rec.outcome = "threw"
                            /\ rec.err = "InvalidNetworkConfig"
                            /\ file' = file
                      /\ rec.options.retryAttempts = NoRetryAttempts
                         => maxRetries = 3
                      /\ \/ rec.outcome = "threw" /\ rec.err # NoError
                         \/ /\ rec.outcome = "returned"
                            /\ rec.newNetwork.name = rec.options.name
                            /\ rec.newNetwork \in Range(file')]_vars
    /\ \A c \in Procs :
          (calls[c].op = "addNetwork" /\ calls[c].pc # "done")
             ~> (calls[c].pc = "done")

\* an addNetwork with retryAttempts = 2 has returned after one validation, and
\* one with a negative retryAttempts has thrown
C34_Witness ==
    \E c, d \in Procs :
        /\ calls[c].op = "addNetwork"
        /\ calls[c].pc = "done"
        /\ calls[c].outcome = "returned"
        /\ calls[c].options.retryAttempts = 2
        /\ calls[c].attempts = 1
        /\ calls[d].op = "addNetwork"
        /\ calls[d].pc = "done"
        /\ calls[d].options.retryAttempts < 0
        /\ calls[d].outcome = "threw"

\* createWallet has been called
CreateFinishes ==
    /\ walletCall'.op = "createWallet"
    /\ walletCall'.made = walletCall.made + 1

\* C35: a createWallet that fails, with UnsupportedNetwork or with
\* NoMnemonicAvailable when a QR code was asked for a wallet without a phrase,
\* leaves the files of the store as they were
C35_FailedCreateWritesNothing ==
    [][(CreateFinishes /\ walletCall'.outcome = "threw")
          => walletsPath' = walletsPath]_vars

\* the write of a monitoring tick changes lastValidated and the monitoring
\* flags of the monitored network and nothing else
TickWritesOwnFields ==
    \A t \in DOMAIN timers :
        (timers[t].pc = "save" /\ timers'[t].pc = "idle")
           => /\ Len(file') = Len(file)
              /\ \A i \in DOMAIN file :
                    IF file[i].name = timers[t].name
                    THEN [file'[i] EXCEPT !.lastValidated = Fresh,
                                          !.monitoringEnabled = FALSE]
                            = [file[i] EXCEPT !.lastValidated = Fresh,
                                              !.monitoringEnabled = FALSE]
                    ELSE file'[i] = file[i]

\* the write of a benchmark changes benchmarkResults of the benchmarked
\* network and nothing else
BenchmarkWritesOwnField ==
    \A c \in Procs :
        (calls[c].pc = "benchmarkSave" /\ calls'[c].pc = "done")
           => /\ Len(file') = Len(file)
              /\ \A i \in DOMAIN file :
                    IF file[i].name = calls[c].name
                    THEN [file'[i] EXCEPT !.benchmarkResults = NoBenchmark]
                            = [file[i] EXCEPT !.benchmarkResults = NoBenchmark]
                    ELSE file'[i] = file[i]

\* C36: the write of a monitoring tick changes nothing in the registry but
\* lastValidated and the monitoring flags of the monitored network, and the
\* write of a benchmark nothing but benchmarkResults of the benchmarked one:
\* what add, remove and switch calls that completed since the start of the
\* monitoring or of the benchmark wrote is still there after it
C36_WritesOwnFieldsOnly ==
    [][TickWritesOwnFields /\ BenchmarkWritesOwnField]_vars

\* whenever activeNetwork is set, the registry has an entry of that name, and
\* it is the one with isActive = true
ActiveIsInRegistry ==
    activeNetwork # NoName => ActiveName(file) = activeNetwork

\* an operation called without a name, on a registry that has an entry with
\* isActive = true, finds its target
UnnamedCallFindsActive ==
    \A c \in Procs :
        (/\ Begins(c, "getNetworkStatus") \/ Begins(c, "syncNetwork")
         /\ calls'[c].name = NoName
         /\ ActiveName(file) # NoName)
           => calls'[c].err # "NoActiveNetwork"

\* C37: the active network in memory agrees with the registry: when
\* activeNetwork is set the registry has an entry of that name with isActive =
\* true, and when the registry has an entry with isActive = true, also after a
\* restart, the operations called without a name act on that entry
C37_ActiveAgreesWithRegistry ==
    [][ActiveIsInRegistry' /\ UnnamedCallFindsActive]_vars

\* C38: whatever the mix of requests answered and requests failed during a
\* benchmark, the errorRate reported is the number of failed requests over the
\* number of requests issued, which lies between 0 and 1, and success is true
\* exactly when no request failed
C38_ErrorRateIsFraction ==
    \A c \in Procs :
        (/\ calls[c].op = "benchmarkNetwork"
         /\ calls[c].pc = "done"
         /\ calls[c].outcome = "returned")
           => LET result == calls[c].benchmark
                  issued == result.requestCount + result.errors
              IN /\ issued > 0
                    => result.errorRate.num * issued
                          = result.errors * result.errorRate.den
                 /\ 0 <= result.errorRate.num
                 /\ result.errorRate.num <= result.errorRate.den
                 /\ result.success <=> result.errors = 0

\* C39: exportWallets leaves the collection of wallets as it is: for every
\* filter, listWallets right after an export, in JSON or in CSV and with the
\* default path, returns the records, or fails, as right before it
C39_ExportLeavesListing ==
    [][(walletCall'.op = "exportWallets" /\ walletCall'.made = walletCall.made + 1)
          => \A filter \in ExportInputs.filters :
                ListWallets(walletsPath', filter) = ListWallets(walletsPath, filter)]_vars

\* C40: importNetworks with overwrite = true loses no network: every name the
\* registry held when the import read it is in the registry when the import
\* ends, whether it returns or throws
C40_OverwriteLosesNoNetwork ==
    [][\A c \in Procs :
          (/\ calls[c].op = "importNetworks"
           /\ InFlight(c)
           /\ calls[c].overwrite
           /\ calls'[c].pc = "done")
             => NamesOf(calls[c].networks) \subseteq NamesOf(file')]_vars

====
